---------------------------- MODULE Spec2Model ----------------------------
(***************************************************************************)
(* State-machine model of aiohttp/connector.py: the connection pool        *)
(* (BaseConnector), the lease object (Connection) with its release         *)
(* callbacks, the keep-alive cleanup task, and the DNS cache, the resolver *)
(* gate, the direct dialer and the proxy tunnel of TCPConnector.  One      *)
(* action is one span of code between two suspension points of the         *)
(* single-threaded event loop.                                             *)
(***************************************************************************)
EXTENDS Integers, Sequences, FiniteSets, TLC

(***************************************************************************)
(* Bounds of the model: the concurrent callers of connect, the connection  *)
(* keys, the calls of connect in one run, the protocols the dialer makes,  *)
(* the ticks of the clock and the concurrent calls of Connection.close on  *)
(* one handle.  SpecTasks and SpecConnects are the callers and calls of    *)
(* Spec, which takes every step of the program; SpecQueue and SpecIdle     *)
(* take fewer kinds of steps with NumTasks callers and MaxConnects calls.  *)
(* MaxCallbacks and MaxHandleCalls are the callbacks registered on one     *)
(* handle and the calls of release and close it records (SpecHandle);      *)
(* NumDials, NumHosts and MaxAddrs are the dials resolving a host, the     *)
(* hosts and the address records of one answer (SpecDns); SpecDials are    *)
(* the dials of SpecDial, which follows a dial through the loop over its   *)
(* addresses.  MaxLimit is the largest limit and limit_per_host of         *)
(* SpecAvail, which ranges over the configurations of the two limits.      *)
(***************************************************************************)
NumTasks == 3
NumKeys == 2
MaxConnects == 4
MaxProtos == 3
MaxTime == 2
MaxClosers == 2
MaxCallbacks == 2
MaxHandleCalls == 2
SpecTasks == 2
SpecConnects == 2
MaxLimit == 3
NumDials == 3
SpecDials == 2
NumHosts == 1
MaxAddrs == 2

Tasks == 1..NumTasks
Keys == 1..NumKeys
Calls == 1..MaxConnects
Protos == 1..MaxProtos
CallbackIds == 1..MaxCallbacks
Dials == 1..NumDials
Hosts == 1..NumHosts
NoEvent == 0
ListIds == 1..(NumKeys + NumTasks)
NoList == 0
NoProto == 0

(* keepalive_timeout in the model's clock units; "forever" stands for the  *)
(* 3600 s the cleanup task uses in force_close mode.                       *)
keepalive_timeout == 1
Forever == MaxTime + keepalive_timeout + 1

VARIABLES
    limit, limit_per_host, force_close, traced,
    closed, wakeup, conns, heap, acquired, acquired_per_host, waiters,
    futs, now,
    pc, key, call, getList, getT1, proto, hClosed, closing,
    startedClosed,
    cleanupPc, cleanupWhen, cleanupClosing, closePc,
    connected, closeCalls, connects, dials, raised,
    callbacks, fired, registered, hLog, hShould,
    use_dns_cache, ttl_dns_cache, cached_hosts, served, timestamps,
    throttle_dns_events, events, dpc, rpc, rkey, rev, rres, resolves,
    hinfo, last_exc, tried, dret,
    conn, tunnels

cfgVars == <<limit, limit_per_host, force_close, traced>>
poolVars == <<closed, wakeup, conns, heap, acquired, acquired_per_host, waiters, futs>>
taskVars == <<pc, key, call, getList, getT1, proto, hClosed, closing, startedClosed>>
cleanupVars == <<cleanupPc, cleanupWhen, cleanupClosing, closePc>>
protoVars == <<connected, closeCalls>>
handleVars == <<callbacks, fired, registered, hLog, hShould>>
loopVars == <<hinfo, last_exc, tried, dret>>
proxyVars == <<conn, tunnels>>
resolveVars == <<use_dns_cache, ttl_dns_cache, cached_hosts, served, timestamps,
                throttle_dns_events, events, dpc, rpc, rkey, rev, rres, resolves,
                loopVars>>
dnsVars == <<resolveVars, proxyVars>>
vars == <<cfgVars, poolVars, taskVars, cleanupVars, protoVars, handleVars, dnsVars,
          now, connects, dials, raised>>

(***************************************************************************)
(* Dictionaries are functions whose domain is the set of present keys.     *)
(***************************************************************************)
DictSet(d, k, v) == [x \in (DOMAIN d) \cup {k} |-> IF x = k THEN v ELSE d[x]]
DictDel(d, k) == [x \in (DOMAIN d) \ {k} |-> d[x]]
EmptyDict == [x \in {} |-> 0]

(* what a resolve task or an event holds: nothing yet, a list of address   *)
(* records, or an exception (err names the lookup that raised it)          *)
NoResult == [kind |-> "none", addrs |-> <<>>, err |-> 0]
Ok(a) == [kind |-> "ok", addrs |-> a, err |-> 0]
(* how a dial ended: not yet, with the connection to an address, or with   *)
(* an exception                                                            *)
NotEnded == [kind |-> "none", val |-> 0]

(* the Connection a proxy dial builds to send CONNECT: none, or its key    *)
(* and protocol                                                            *)
NoConn == [key |-> 0, proto |-> 0]
Err(what, e) == [kind |-> what, addrs |-> <<>>, err |-> e]

Card(S) == Cardinality(S)

RECURSIVE SumOver(_, _)
SumOver(d, S) ==
    IF S = {} THEN 0
    ELSE LET x == CHOOSE y \in S : TRUE
         IN Card(d[x]) + SumOver(d, S \ {x})

Front(s) == SubSeq(s, 1, Len(s) - 1)
Last(s) == s[Len(s)]

RECURSIVE SeqRemove(_, _)
SeqRemove(s, x) ==
    IF s = <<>> THEN <<>>
    ELSE IF Head(s) = x THEN Tail(s)
    ELSE <<Head(s)>> \o SeqRemove(Tail(s), x)

(* closeCalls[p] counts the calls of p.close(): 0, 1, or 2 for "several".   *)
Closed(cc, S) == [p \in Protos |-> IF p \in S /\ cc[p] < 2 THEN cc[p] + 1 ELSE cc[p]]

(* The placeholder object created by one call of connect.                  *)
Placeholder(c) == 0 - c

(***************************************************************************)
(* BaseConnector._available_connections                                    *)
(***************************************************************************)
(* the slots left under the total limit alone                              *)
available_total(k, acq, aph) == limit - Card(acq)

available_connections(k, acq, aph) ==
    IF limit # 0
    THEN LET available == limit - Card(acq)
         IN IF limit_per_host # 0 /\ available > 0 /\ k \in DOMAIN aph
            THEN limit_per_host - Card(aph[k])
            ELSE available
    ELSE IF limit_per_host # 0 /\ k \in DOMAIN aph
    THEN limit_per_host - Card(aph[k])
    ELSE 1

(***************************************************************************)
(* BaseConnector._drop_acquired_per_host.  The result is the new dict; the *)
(* KeyError of set.remove is reported by DropRaises.                       *)
(***************************************************************************)
DropRaises(aph, k, val) == k \in DOMAIN aph /\ val \notin aph[k]

(* The same function without conns.remove(val).                            *)
drop_without_remove(aph, k, val) ==
    IF k \in DOMAIN aph /\ aph[k] = {} THEN DictDel(aph, k) ELSE aph

drop_acquired_per_host(aph, k, val) ==
    IF k \notin DOMAIN aph THEN aph
    ELSE IF aph[k] \ {val} = {} THEN DictDel(aph, k)
    ELSE DictSet(aph, k, aph[k] \ {val})

(* self._acquired_per_host[key].add(val) on the defaultdict                *)
AddPerHost(aph, k, val) ==
    DictSet(aph, k, (IF k \in DOMAIN aph THEN aph[k] ELSE {}) \cup {val})

(***************************************************************************)
(* BaseConnector._release_waiter.  The keys are scanned in a shuffled      *)
(* order; the result is [w |-> waiters, f |-> futures].                    *)
(***************************************************************************)
(* The same loop taking the waiters from the right end (pop).              *)
RECURSIVE PopRightUntilLive(_, _)
PopRightUntilLive(q, f) ==
    IF q = <<>> THEN [q |-> <<>>, woke |-> 0]
    ELSE IF f[Last(q)] = "pending" THEN [q |-> Front(q), woke |-> Last(q)]
    ELSE PopRightUntilLive(Front(q), f)

RECURSIVE PopUntilLive(_, _)
PopUntilLive(q, f) ==
    \* while waiters: waiter = popleft(); if not waiter.done(): set_result
    IF q = <<>> THEN [q |-> <<>>, woke |-> 0]
    ELSE IF f[Head(q)] = "pending" THEN [q |-> Tail(q), woke |-> Head(q)]
    ELSE PopUntilLive(Tail(q), f)

(* The same scan without the return after set_result: it goes on to the   *)
(* other keys.                                                             *)
RECURSIVE ScanAllQueues(_, _, _, _, _)
ScanAllQueues(order, w, f, acq, aph) ==
    IF order = <<>> THEN [w |-> w, f |-> f]
    ELSE LET k == Head(order)
         IN IF available_connections(k, acq, aph) < 1
            THEN ScanAllQueues(Tail(order), w, f, acq, aph)
            ELSE LET r == PopUntilLive(w[k], f)
                     w2 == [w EXCEPT ![k] = r.q]
                     f2 == IF r.woke # 0 THEN [f EXCEPT ![r.woke] = "result"] ELSE f
                 IN ScanAllQueues(Tail(order), w2, f2, acq, aph)

RECURSIVE ScanQueues(_, _, _, _, _)
ScanQueues(order, w, f, acq, aph) ==
    IF order = <<>> THEN [w |-> w, f |-> f]
    ELSE LET k == Head(order)
         IN IF available_connections(k, acq, aph) < 1
            THEN ScanQueues(Tail(order), w, f, acq, aph)
            ELSE LET r == PopUntilLive(w[k], f)
                     w2 == [w EXCEPT ![k] = r.q]
                 IN IF r.woke # 0
                    THEN [w |-> w2, f |-> [f EXCEPT ![r.woke] = "result"]]
                    ELSE ScanQueues(Tail(order), w2, f, acq, aph)

Orders(S) ==
    {o \in [1..Card(S) -> S] : \A i, j \in 1..Card(S) : i # j => o[i] # o[j]}

release_waiter(w, f, acq, aph) ==
    IF DOMAIN w = {} THEN {[w |-> w, f |-> f]}
    ELSE {ScanQueues(o, w, f, acq, aph) : o \in Orders(DOMAIN w)}

(***************************************************************************)
(* The idle map self._conns maps a key to a list object.  List objects     *)
(* live in heap; a task suspended in _get keeps a reference to the list it *)
(* read at entry, which the cleanup task or another _get may have detached *)
(* from the map in the meantime.                                           *)
(***************************************************************************)
Referenced(cn, gl) ==
    ({cn[k] : k \in DOMAIN cn} \cup {gl[t] : t \in Tasks}) \ {NoList}

Gc(hp, cn, gl) ==
    [i \in ListIds |-> IF i \in Referenced(cn, gl) THEN hp[i] ELSE <<>>]

RECURSIVE NthFree(_, _)
NthFree(S, n) ==
    LET m == CHOOSE x \in S : \A y \in S : x <= y
    IN IF n = 1 THEN m ELSE NthFree(S \ {m}, n - 1)

IdleProtos(cn, hp) ==
    UNION {{hp[cn[k]][i][1] : i \in 1..Len(hp[cn[k]])} : k \in DOMAIN cn}

(***************************************************************************)
(* BaseConnector._get: one turn of its loop, up to the next suspension or  *)
(* the return.  kind is "proto" (return proto), "none" (return None),      *)
(* "close" (suspended in proto.close()) or "keyerror" (del raised).        *)
(***************************************************************************)
GetLoop(L, t1, k, hp, cn, cd) ==
    IF hp[L] = <<>>
    THEN \* No more connections: drop the key
         IF k \in DOMAIN cn
         THEN [kind |-> "none", p |-> NoProto, heap |-> hp, conns |-> DictDel(cn, k)]
         ELSE [kind |-> "keyerror", p |-> NoProto, heap |-> hp, conns |-> cn]
    ELSE LET e == Last(hp[L])
             hp2 == [hp EXCEPT ![L] = Front(hp[L])]
         IN IF cd[e[1]] /\ ~(t1 - e[2] > keepalive_timeout)
            THEN IF hp2[L] = <<>>
                 THEN \* The very last connection was reclaimed: drop the key
                      IF k \in DOMAIN cn
                      THEN [kind |-> "proto", p |-> e[1], heap |-> hp2,
                            conns |-> DictDel(cn, k)]
                      ELSE [kind |-> "keyerror", p |-> NoProto, heap |-> hp2,
                            conns |-> cn]
                 ELSE [kind |-> "proto", p |-> e[1], heap |-> hp2, conns |-> cn]
            ELSE [kind |-> "close", p |-> e[1], heap |-> hp2, conns |-> cn]

GetEntry(k, hp, cn) ==
    IF k \notin DOMAIN cn
    THEN [kind |-> "none", p |-> NoProto, heap |-> hp, conns |-> cn]
    ELSE GetLoop(cn[k], now, k, hp, cn, connected)

(***************************************************************************)
(* BaseConnector.connect from the return of _get (line 432) to its next    *)
(* suspension or its end.  L and t1 are _get's locals, r its outcome.      *)
(***************************************************************************)
AfterGet(t, k, c, L, t1, r) ==
    LET gl == [getList EXCEPT ![t] = IF r.kind = "close" THEN L ELSE NoList]
    IN /\ conns' = r.conns
       /\ heap' = Gc(r.heap, r.conns, gl)
       /\ getList' = gl
       /\ getT1' = [getT1 EXCEPT ![t] = IF r.kind = "close" THEN t1 ELSE 0]
       /\ raised' = IF r.kind = "keyerror" THEN "KeyError" ELSE "none"
       /\ CASE r.kind = "close" ->
                 /\ pc' = [pc EXCEPT ![t] = "get_close"]
                 /\ proto' = [proto EXCEPT ![t] = r.p]
                 /\ closeCalls' = Closed(closeCalls, {r.p})
                 /\ UNCHANGED <<acquired, acquired_per_host, hClosed>>
            [] r.kind = "keyerror" ->
                 /\ pc' = [pc EXCEPT ![t] = "idle"]
                 /\ proto' = [proto EXCEPT ![t] = NoProto]
                 /\ UNCHANGED <<acquired, acquired_per_host, hClosed, closeCalls>>
            [] r.kind = "none" ->
                 /\ acquired' = acquired \cup {Placeholder(c)}
                 /\ acquired_per_host' = AddPerHost(acquired_per_host, k, Placeholder(c))
                 /\ pc' = [pc EXCEPT ![t] = IF traced THEN "tr_create_start" ELSE "dialing"]
                 /\ proto' = [proto EXCEPT ![t] = NoProto]
                 /\ UNCHANGED <<hClosed, closeCalls>>
            [] r.kind = "proto" ->
                 IF traced
                 THEN /\ pc' = [pc EXCEPT ![t] = "tr_reuse"]
                      /\ proto' = [proto EXCEPT ![t] = r.p]
                      /\ UNCHANGED <<acquired, acquired_per_host, hClosed, closeCalls>>
                 ELSE /\ acquired' = acquired \cup {r.p}
                      /\ acquired_per_host' = AddPerHost(acquired_per_host, k, r.p)
                      /\ pc' = [pc EXCEPT ![t] = "holding"]
                      /\ proto' = [proto EXCEPT ![t] = r.p]
                      /\ hClosed' = [hClosed EXCEPT ![t] = FALSE]
                      /\ UNCHANGED closeCalls

(* proto = await self._get(key), entered at line 431                       *)
CallGet(t, k, c) ==
    AfterGet(t, k, c, IF k \in DOMAIN conns THEN conns[k] ELSE NoList, now,
             GetEntry(k, heap, conns))

(***************************************************************************)
(* Initial state: a connector just constructed, its cleanup task started   *)
(* and waiting on the wake-up event.                                       *)
(***************************************************************************)
Delay == IF force_close THEN Forever ELSE keepalive_timeout

InitPool ==
    /\ closed = FALSE
    /\ wakeup = FALSE
    /\ conns = EmptyDict
    /\ heap = [i \in ListIds |-> <<>>]
    /\ acquired = {}
    /\ acquired_per_host = EmptyDict
    /\ waiters = EmptyDict
    /\ futs = [c \in Calls |-> "none"]
    /\ now = 0
    /\ pc = [t \in Tasks |-> "idle"]
    /\ key = [t \in Tasks |-> 1]
    /\ call = [t \in Tasks |-> 0]
    /\ getList = [t \in Tasks |-> NoList]
    /\ getT1 = [t \in Tasks |-> 0]
    /\ proto = [t \in Tasks |-> NoProto]
    /\ hClosed = [t \in Tasks |-> TRUE]
    /\ closing = [t \in Tasks |-> 0]
    /\ startedClosed = [t \in Tasks |-> FALSE]
    /\ cleanupPc = "wait"
    /\ cleanupWhen = Delay
    /\ cleanupClosing = {}
    /\ closePc = "none"
    /\ connected = [p \in Protos |-> FALSE]
    /\ closeCalls = [p \in Protos |-> 0]
    /\ connects = 0
    /\ dials = 0
    /\ raised = "none"
    /\ callbacks = [t \in Tasks |-> <<>>]
    /\ fired = [t \in Tasks |-> [c \in CallbackIds |-> 0]]
    /\ registered = [t \in Tasks |-> 0]
    /\ hLog = [t \in Tasks |-> <<>>]
    /\ hShould = FALSE
    /\ cached_hosts = EmptyDict
    /\ served = EmptyDict
    /\ timestamps = EmptyDict
    /\ throttle_dns_events = EmptyDict
    /\ events = [d \in Dials |-> NoResult]
    /\ dpc = [d \in Dials |-> "idle"]
    /\ hinfo = [d \in Dials |-> 1]
    /\ last_exc = [d \in Dials |-> "None"]
    /\ tried = [d \in Dials |-> <<>>]
    /\ dret = [d \in Dials |-> NotEnded]
    /\ conn = [t \in Tasks |-> NoConn]
    /\ tunnels = EmptyDict
    /\ rpc = [d \in Dials |-> "none"]
    /\ rkey = [d \in Dials |-> 1]
    /\ rev = [d \in Dials |-> NoEvent]
    /\ rres = [d \in Dials |-> NoResult]
    /\ resolves = 0

(***************************************************************************)
(* BaseConnector.connect, lines 396-409: the gate.  Tasks are              *)
(* interchangeable: a new call runs in the lowest-numbered free task.      *)
(***************************************************************************)
CanStart(t) ==
    \/ pc[t] = "idle"
    \/ pc[t] = "holding" /\ hClosed[t] /\ closing[t] = 0

(* the caller holds no Connection object while its connect call runs       *)
NoHandle(t) ==
    /\ callbacks' = [callbacks EXCEPT ![t] = <<>>]
    /\ fired' = [fired EXCEPT ![t] = [c \in CallbackIds |-> 0]]
    /\ registered' = [registered EXCEPT ![t] = 0]
    /\ hLog' = [hLog EXCEPT ![t] = <<>>]
    /\ UNCHANGED hShould

ConnectStart(t, k) ==
    /\ CanStart(t)
    /\ \A u \in Tasks : u < t => ~CanStart(u)
    /\ connects < MaxConnects
    /\ LET c == connects + 1
       IN /\ connects' = c
          /\ key' = [key EXCEPT ![t] = k]
          /\ call' = [call EXCEPT ![t] = c]
          /\ startedClosed' = [startedClosed EXCEPT ![t] = closed]
          /\ IF available_connections(k, acquired, acquired_per_host) <= 0
                \/ k \in DOMAIN waiters
             THEN /\ waiters' = DictSet(waiters, k,
                         (IF k \in DOMAIN waiters THEN waiters[k] ELSE <<>>) \o <<c>>)
                  /\ futs' = [futs EXCEPT ![c] = "pending"]
                  /\ pc' = [pc EXCEPT ![t] = IF traced THEN "q_start" ELSE "waiting"]
                  /\ proto' = [proto EXCEPT ![t] = NoProto]
                  /\ raised' = "none"
                  /\ UNCHANGED <<conns, heap, acquired, acquired_per_host, getList,
                                 getT1, hClosed, closeCalls>>
             ELSE /\ UNCHANGED <<waiters, futs>>
                  /\ CallGet(t, k, c)
    /\ NoHandle(t)
    /\ UNCHANGED dnsVars
    /\ UNCHANGED <<cfgVars, closed, wakeup, now, closing, cleanupVars, connected, dials>>

(* finally: if key in self._waiters and not self._waiters[key]: del        *)
DropEmptyQueue(w, k) ==
    IF k \in DOMAIN w /\ w[k] = <<>> THEN DictDel(w, k) ELSE w

(* The end of a call of connect that raised: the task holds nothing.       *)
Raise(t, what) ==
    /\ pc' = [pc EXCEPT ![t] = "idle"]
    /\ proto' = [proto EXCEPT ![t] = NoProto]
    /\ getT1' = [getT1 EXCEPT ![t] = 0]
    /\ key' = [key EXCEPT ![t] = 1]
    /\ call' = [call EXCEPT ![t] = 0]
    /\ startedClosed' = [startedClosed EXCEPT ![t] = FALSE]
    /\ raised' = what

(* lines 407-412: the queued_start trace has returned; await fut           *)
QueuedStartDone(t) ==
    /\ pc[t] = "q_start"
    /\ IF futs[call[t]] = "pending"
       THEN /\ pc' = [pc EXCEPT ![t] = "waiting"]
            /\ UNCHANGED waiters
       ELSE /\ pc' = [pc EXCEPT ![t] = "q_end"]
            /\ waiters' = DropEmptyQueue(waiters, key[t])
    /\ raised' = "none"
    /\ UNCHANGED handleVars
    /\ UNCHANGED dnsVars
    /\ UNCHANGED <<cfgVars, closed, wakeup, conns, heap, acquired, acquired_per_host,
                   futs, now, key, call, getList, getT1, proto, hClosed, closing,
                   startedClosed, cleanupVars, protoVars, connects, dials>>

(* lines 411-431: the task resumes from await fut                          *)
WaiterResume(t) ==
    /\ pc[t] = "waiting"
    /\ futs[call[t]] # "pending"
    /\ IF futs[call[t]] = "result"
       THEN /\ waiters' = DropEmptyQueue(waiters, key[t])
            /\ UNCHANGED <<key, call, startedClosed>>
            /\ IF traced
               THEN /\ pc' = [pc EXCEPT ![t] = "q_end"]
                    /\ raised' = "none"
                    /\ UNCHANGED <<conns, heap, acquired, acquired_per_host, getList,
                                   getT1, proto, hClosed, closeCalls>>
               ELSE CallGet(t, key[t], call[t])
       ELSE \* except BaseException: remove the waiter if it is still queued
            LET w1 == IF key[t] \in DOMAIN waiters
                      THEN [waiters EXCEPT ![key[t]] = SeqRemove(@, call[t])]
                      ELSE waiters
            IN /\ waiters' = DropEmptyQueue(w1, key[t])
               /\ Raise(t, "Cancelled")
               /\ UNCHANGED <<conns, heap, acquired, acquired_per_host, getList,
                              hClosed, closeCalls>>
    /\ UNCHANGED handleVars
    /\ UNCHANGED dnsVars
    /\ UNCHANGED <<cfgVars, closed, wakeup, futs, now, closing, cleanupVars, connected,
                   connects, dials>>

(* lines 427-431: the queued_end trace has returned                        *)
QueuedEndDone(t) ==
    /\ pc[t] = "q_end"
    /\ CallGet(t, key[t], call[t])
    /\ UNCHANGED handleVars
    /\ UNCHANGED dnsVars
    /\ UNCHANGED <<cfgVars, closed, wakeup, waiters, futs, now, key, call, closing,
                   startedClosed, cleanupVars, connected, connects, dials>>

(* _get resumes from await proto.close() (lines 480, 487)                  *)
GetCloseDone(t) ==
    /\ pc[t] = "get_close"
    /\ LET cd == [connected EXCEPT ![proto[t]] = FALSE]
       IN /\ connected' = cd
          /\ AfterGet(t, key[t], call[t], getList[t], getT1[t],
                      GetLoop(getList[t], getT1[t], key[t], heap, conns, cd))
    /\ UNCHANGED handleVars
    /\ UNCHANGED dnsVars
    /\ UNCHANGED <<cfgVars, closed, wakeup, waiters, futs, now, key, call, closing,
                   startedClosed, cleanupVars, connects, dials>>

(* lines 437-442: the create_start trace has returned                      *)
CreateStartDone(t) ==
    /\ pc[t] = "tr_create_start"
    /\ pc' = [pc EXCEPT ![t] = "dialing"]
    /\ raised' = "none"
    /\ UNCHANGED handleVars
    /\ UNCHANGED dnsVars
    /\ UNCHANGED <<cfgVars, poolVars, now, key, call, getList, getT1, proto, hClosed,
                   closing, startedClosed, cleanupVars, protoVars, connects, dials>>

(* Connection keys: key ProxyKey is an https request sent through a proxy, *)
(* key 1 is the same endpoint without proxy, proxy_auth and proxy headers. *)
ProxyKey == 2
HasProxy(k) == k = ProxyKey

(* attr.evolve(req.connection_key, proxy=None, proxy_auth=None,            *)
(*             proxy_headers_hash=None)                                    *)
evolve(k) == IF HasProxy(k) THEN 1 ELSE k

(* a connect that would take the evolved key for its bookkeeping           *)
LeaseEvolved(t, p, acq, aph) ==
    /\ acquired' = acq \cup {p}
    /\ acquired_per_host' = AddPerHost(aph, evolve(key[t]), p)
    /\ pc' = [pc EXCEPT ![t] = "holding"]
    /\ proto' = [proto EXCEPT ![t] = p]
    /\ hClosed' = [hClosed EXCEPT ![t] = FALSE]
    /\ raised' = "none"

(* self._acquired.add(proto); return Connection(self, key, proto)          *)
Lease(t, p, acq, aph) ==
    /\ acquired' = acq \cup {p}
    /\ acquired_per_host' = AddPerHost(aph, key[t], p)
    /\ pc' = [pc EXCEPT ![t] = "holding"]
    /\ proto' = [proto EXCEPT ![t] = p]
    /\ hClosed' = [hClosed EXCEPT ![t] = FALSE]
    /\ raised' = "none"

(* lines 442-459: _create_connection returned a protocol                   *)
DialSucceed(t) ==
    /\ pc[t] = "dialing"
    /\ dials < MaxProtos
    /\ LET p == dials + 1
           acq == acquired \ {Placeholder(call[t])}
           aph == drop_acquired_per_host(acquired_per_host, key[t],
                                         Placeholder(call[t]))
       IN /\ dials' = p
          /\ connected' = [connected EXCEPT ![p] = TRUE]
          /\ IF closed
             THEN \* await proto.close(); the placeholder is kept
                  /\ pc' = [pc EXCEPT ![t] = "dial_closing"]
                  /\ proto' = [proto EXCEPT ![t] = p]
                  /\ closeCalls' = Closed(closeCalls, {p})
                  /\ raised' = "none"
                  /\ UNCHANGED <<acquired, acquired_per_host, hClosed>>
             ELSE IF traced
             THEN /\ acquired' = acq
                  /\ acquired_per_host' = aph
                  /\ pc' = [pc EXCEPT ![t] = "tr_create_end"]
                  /\ raised' = "none"
                  /\ proto' = [proto EXCEPT ![t] = p]
                  /\ UNCHANGED <<hClosed, closeCalls>>
             ELSE /\ Lease(t, p, acq, aph)
                  /\ UNCHANGED closeCalls
    /\ UNCHANGED handleVars
    /\ UNCHANGED dnsVars
    /\ UNCHANGED <<cfgVars, closed, wakeup, conns, heap, waiters, futs, now, key, call,
                   getList, getT1, closing, startedClosed, cleanupVars, connects>>

(* lines 444-451: proto.close() returned; ClientConnectionError is raised  *)
(* and the handler finds the connector closed                              *)
DialCloseDone(t) ==
    /\ pc[t] = "dial_closing"
    /\ connected' = [connected EXCEPT ![proto[t]] = FALSE]
    /\ Raise(t, "ConnectorClosed")
    /\ UNCHANGED handleVars
    /\ UNCHANGED dnsVars
    /\ UNCHANGED <<cfgVars, poolVars, now, getList, hClosed, closing, cleanupVars,
                   closeCalls, connects, dials>>

(* lines 446-451: the handler of a failed or cancelled dial                *)
DialAbort(t, what) ==
    /\ IF closed
       THEN UNCHANGED <<acquired, acquired_per_host, waiters, futs>>
       ELSE LET acq == acquired \ {Placeholder(call[t])}
                aph == drop_acquired_per_host(acquired_per_host, key[t],
                                              Placeholder(call[t]))
            IN /\ acquired' = acq
               /\ acquired_per_host' = aph
               /\ \E r \in release_waiter(waiters, futs, acq, aph) :
                     waiters' = r.w /\ futs' = r.f
    /\ Raise(t, what)
    /\ UNCHANGED handleVars
    /\ UNCHANGED dnsVars
    /\ UNCHANGED <<cfgVars, closed, wakeup, conns, heap, now, getList, hClosed, closing,
                   cleanupVars, protoVars, connects, dials>>

DialFail(t) ==
    /\ pc[t] = "dialing"
    /\ DialAbort(t, "DialError")

(***************************************************************************)
(* TCPConnector._create_proxy_connection for an https request, run by      *)
(* connect as _create_connection.  conn[t] is the Connection built for     *)
(* the CONNECT request; tunnels records, for each protocol a tunnel ended  *)
(* with, the key of the request and the key of that Connection.            *)
(***************************************************************************)

(* _create_direct_connection to the proxy returned; proto.force_close();   *)
(* key = attr.evolve(...); conn = Connection(self, key, proto);            *)
(* await proxy_req.send(conn); await proxy_resp.start(conn)                *)
ProxyDialed(t) ==
    /\ pc[t] = "dialing"
    /\ HasProxy(key[t])
    /\ dials < MaxProtos - 1
    /\ dials' = dials + 1
    /\ connected' = [connected EXCEPT ![dials + 1] = TRUE]
    /\ conn' = [conn EXCEPT ![t] = [key |-> evolve(key[t]), proto |-> dials + 1]]
    /\ pc' = [pc EXCEPT ![t] = "tunnel"]
    /\ raised' = "none"
    /\ UNCHANGED <<handleVars, resolveVars, tunnels>>
    /\ UNCHANGED <<cfgVars, poolVars, now, key, call, getList, getT1, proto, hClosed,
                   closing, startedClosed, cleanupVars, closeCalls, connects>>

(* the proxy answered 200: rawsock.dup(), transport.close(), and           *)
(* await self._wrap_create_connection(..., sock=rawsock)                   *)
TunnelUp(t) ==
    /\ pc[t] = "tunnel"
    /\ connected' = [connected EXCEPT ![conn[t].proto] = FALSE]
    /\ pc' = [pc EXCEPT ![t] = "wrap"]
    /\ raised' = "none"
    /\ UNCHANGED <<handleVars, resolveVars, proxyVars>>
    /\ UNCHANGED <<cfgVars, poolVars, now, key, call, getList, getT1, proto, hClosed,
                   closing, startedClosed, cleanupVars, closeCalls, connects, dials>>

(* the tunnel fails: proxy_resp.start raises (conn.close() is called but   *)
(* its coroutine is not awaited), the status is not 200 (transport.close() *)
(* in the finally clause), or the TLS wrap fails; then the handler of      *)
(* connect, lines 446-451                                                  *)
TunnelFail(t) ==
    /\ pc[t] \in {"tunnel", "wrap"}
    /\ \E closes \in IF pc[t] = "wrap" THEN {TRUE} ELSE BOOLEAN :
          connected' = IF closes THEN [connected EXCEPT ![conn[t].proto] = FALSE]
                       ELSE connected
    /\ IF closed
       THEN UNCHANGED <<acquired, acquired_per_host, waiters, futs>>
       ELSE LET acq == acquired \ {Placeholder(call[t])}
                aph == drop_acquired_per_host(acquired_per_host, key[t],
                                              Placeholder(call[t]))
            IN /\ acquired' = acq
               /\ acquired_per_host' = aph
               /\ \E r \in release_waiter(waiters, futs, acq, aph) :
                     waiters' = r.w /\ futs' = r.f
    /\ Raise(t, "DialError")
    /\ UNCHANGED <<handleVars, resolveVars, proxyVars>>
    /\ UNCHANGED <<cfgVars, closed, wakeup, conns, heap, now, getList, hClosed, closing,
                   cleanupVars, closeCalls, connects, dials>>

(* _wrap_create_connection returned the protocol of the tunnel, which      *)
(* _create_proxy_connection returns to connect, lines 442-459              *)
TunnelDone(t) ==
    /\ pc[t] = "wrap"
    /\ dials < MaxProtos
    /\ LET p == dials + 1
           acq == acquired \ {Placeholder(call[t])}
           aph == drop_acquired_per_host(acquired_per_host, key[t],
                                         Placeholder(call[t]))
       IN /\ dials' = p
          /\ connected' = [connected EXCEPT ![p] = TRUE]
          /\ tunnels' = DictSet(tunnels, p, [req |-> key[t], conn |-> conn[t].key])
          /\ IF closed
             THEN /\ pc' = [pc EXCEPT ![t] = "dial_closing"]
                  /\ proto' = [proto EXCEPT ![t] = p]
                  /\ closeCalls' = Closed(closeCalls, {p})
                  /\ raised' = "none"
                  /\ UNCHANGED <<acquired, acquired_per_host, hClosed>>
             ELSE IF traced
             THEN /\ acquired' = acq
                  /\ acquired_per_host' = aph
                  /\ pc' = [pc EXCEPT ![t] = "tr_create_end"]
                  /\ raised' = "none"
                  /\ proto' = [proto EXCEPT ![t] = p]
                  /\ UNCHANGED <<hClosed, closeCalls>>
             ELSE /\ Lease(t, p, acq, aph)
                  /\ UNCHANGED closeCalls
    /\ UNCHANGED <<handleVars, resolveVars, conn>>
    /\ UNCHANGED <<cfgVars, closed, wakeup, conns, heap, waiters, futs, now, key, call,
                   getList, getT1, closing, startedClosed, cleanupVars, connects>>

(* _create_connection of a request without proxy returned a protocol       *)
DirectDialed(t) == ~HasProxy(key[t]) /\ DialSucceed(t)

ProxySteps(t) ==
    \/ ProxyDialed(t)
    \/ TunnelUp(t)
    \/ TunnelFail(t)
    \/ TunnelDone(t)

(* lines 457-467: the create_end trace has returned                        *)
CreateEndDone(t) ==
    /\ pc[t] = "tr_create_end"
    /\ Lease(t, proto[t], acquired, acquired_per_host)
    /\ UNCHANGED handleVars
    /\ UNCHANGED dnsVars
    /\ UNCHANGED <<cfgVars, closed, wakeup, conns, heap, waiters, futs, now, key, call,
                   getList, getT1, closing, startedClosed, cleanupVars, protoVars,
                   connects, dials>>

(* lines 461-467: the reuseconn trace has returned                         *)
ReuseDone(t) ==
    /\ pc[t] = "tr_reuse"
    /\ Lease(t, proto[t], acquired, acquired_per_host)
    /\ UNCHANGED handleVars
    /\ UNCHANGED dnsVars
    /\ UNCHANGED <<cfgVars, closed, wakeup, conns, heap, waiters, futs, now, key, call,
                   getList, getT1, closing, startedClosed, cleanupVars, protoVars,
                   connects, dials>>

(***************************************************************************)
(* Cancellation of the task running connect, delivered at the suspension   *)
(* point the task is at.  A task awaiting its waiter future has the future *)
(* cancelled at once (fut.done() becomes true) and runs its handler when   *)
(* it resumes; a future that already has its result stays resolved and the *)
(* task raises CancelledError on resumption.                               *)
(***************************************************************************)
CancelWaiting(t) ==
    /\ pc[t] = "waiting"
    /\ futs[call[t]] \in {"pending", "result"}
    /\ futs' = [futs EXCEPT ![call[t]] =
                   IF @ = "pending" THEN "cancelled" ELSE "result_cancelled"]
    /\ raised' = "none"
    /\ UNCHANGED handleVars
    /\ UNCHANGED dnsVars
    /\ UNCHANGED <<cfgVars, closed, wakeup, conns, heap, acquired, acquired_per_host,
                   waiters, now, taskVars, cleanupVars, protoVars, connects, dials>>

(* Cancelled inside a trace callback or inside _get: no handler of connect *)
(* is active at these points, the exception leaves connect as it is.       *)
CancelOutsideTry(t) ==
    /\ pc[t] \in {"q_start", "q_end", "get_close", "tr_create_start",
                  "tr_create_end", "tr_reuse"}
    /\ Raise(t, "Cancelled")
    /\ getList' = [getList EXCEPT ![t] = NoList]
    /\ heap' = Gc(heap, conns, getList')
    /\ UNCHANGED handleVars
    /\ UNCHANGED dnsVars
    /\ UNCHANGED <<cfgVars, closed, wakeup, conns, acquired, acquired_per_host,
                   waiters, futs, now, hClosed, closing, cleanupVars, protoVars,
                   connects, dials>>

(* Cancelled in the dial, or in the proto.close() of line 444: the handler *)
(* of lines 446-451 runs                                                   *)
CancelDial(t) ==
    /\ pc[t] \in {"dialing", "dial_closing"}
    /\ DialAbort(t, "Cancelled")

(***************************************************************************)
(* BaseConnector._release (with _release_acquired), called on an open or   *)
(* closed connector for protocol p of key k.                               *)
(***************************************************************************)
ReleaseAcquired(k, p) ==
    IF p \notin acquired
    THEN \* KeyError from self._acquired.remove: pass
         UNCHANGED <<acquired, acquired_per_host, waiters, futs>>
    ELSE IF DropRaises(acquired_per_host, k, p)
    THEN \* KeyError from conns.remove: pass
         /\ acquired' = acquired \ {p}
         /\ UNCHANGED <<acquired_per_host, waiters, futs>>
    ELSE LET acq == acquired \ {p}
             aph == drop_acquired_per_host(acquired_per_host, k, p)
         IN /\ acquired' = acq
            /\ acquired_per_host' = aph
            /\ \E r \in release_waiter(waiters, futs, acq, aph) :
                  waiters' = r.w /\ futs' = r.f

(* conns.append((protocol, self._loop.time()))                             *)
AppendIdle(k, p) ==
    IF k \in DOMAIN conns
    THEN /\ heap' = [heap EXCEPT ![conns[k]] = Append(@, <<p, now>>)]
         /\ UNCHANGED conns
    ELSE LET L == NthFree(ListIds \ Referenced(conns, getList), 1)
         IN /\ conns' = DictSet(conns, k, L)
            /\ heap' = [heap EXCEPT ![L] = <<<<p, now>>>>]

(* a _release that does not read force_close                               *)
release_unforced(k, p, should_close) ==
    IF closed
    THEN UNCHANGED <<acquired, acquired_per_host, waiters, futs, wakeup, conns, heap>>
    ELSE /\ ReleaseAcquired(k, p)
         /\ IF should_close
            THEN /\ wakeup' = TRUE
                 /\ UNCHANGED <<conns, heap>>
            ELSE /\ AppendIdle(k, p)
                 /\ UNCHANGED wakeup

(* BaseConnector._release; should_close stands for the argument and for    *)
(* protocol.should_close, which Connection.release passes as the argument  *)
release(k, p, should_close) ==
    IF closed
    THEN UNCHANGED <<acquired, acquired_per_host, waiters, futs, wakeup, conns, heap>>
    ELSE /\ ReleaseAcquired(k, p)
         /\ IF force_close \/ should_close
            THEN /\ wakeup' = TRUE
                 /\ UNCHANGED <<conns, heap>>
            ELSE /\ AppendIdle(k, p)
                 /\ UNCHANGED wakeup

(***************************************************************************)
(* Connection: release callbacks                                           *)
(***************************************************************************)
(* the loop of _notify_release without the suppress: the first Exception  *)
(* ends it                                                                 *)
RECURSIVE notify_unsuppressed(_, _, _)
notify_unsuppressed(cbs, f, raising) ==
    IF cbs = <<>> THEN f
    ELSE IF Head(cbs) \in raising THEN [f EXCEPT ![Head(cbs)] = @ + 1]
    ELSE notify_unsuppressed(Tail(cbs), [f EXCEPT ![Head(cbs)] = @ + 1], raising)

(* for cb in callbacks: with suppress(Exception): cb()                     *)
(* raising is the set of callbacks that raise an Exception when called     *)
RECURSIVE notify_release(_, _, _)
notify_release(cbs, f, raising) ==
    IF cbs = <<>> THEN f
    ELSE notify_release(Tail(cbs), [f EXCEPT ![Head(cbs)] = @ + 1], raising)

(* Connection._notify_release: the list is emptied before the calls        *)
NotifyRelease(t) ==
    /\ callbacks' = [callbacks EXCEPT ![t] = <<>>]
    /\ \E raising \in SUBSET CallbackIds :
          fired' = [fired EXCEPT ![t] = notify_release(callbacks[t], fired[t], raising)]

(* the calls made on the Connection object, in order, the first            *)
(* MaxHandleCalls of them                                                  *)
Called(t, what) ==
    hLog' = [hLog EXCEPT ![t] = IF Len(@) < MaxHandleCalls THEN Append(@, what) ELSE @]

(* Connection.add_callback                                                 *)
add_callback(t) ==
    /\ pc[t] = "holding"
    /\ registered[t] < MaxCallbacks
    /\ registered' = [registered EXCEPT ![t] = @ + 1]
    /\ callbacks' = [callbacks EXCEPT ![t] = Append(@, registered[t] + 1)]
    /\ raised' = "none"
    /\ UNCHANGED <<fired, hLog, hShould>>
    /\ UNCHANGED dnsVars
    /\ UNCHANGED <<cfgVars, poolVars, taskVars, cleanupVars, protoVars, now, connects,
                   dials>>

(***************************************************************************)
(* Connection.release and Connection.close                                 *)
(***************************************************************************)
HandleRelease(t) ==
    /\ pc[t] = "holding"
    /\ ~hClosed[t]
    /\ NotifyRelease(t)
    /\ Called(t, "release")
    /\ \E should_close \in BOOLEAN :
          /\ release(key[t], proto[t], should_close)
          /\ hShould' = should_close
    /\ hClosed' = [hClosed EXCEPT ![t] = TRUE]
    /\ raised' = "none"
    /\ UNCHANGED registered
    /\ UNCHANGED dnsVars
    /\ UNCHANGED <<cfgVars, closed, now, pc, key, call, getList, getT1, proto, closing,
                   startedClosed, cleanupVars, protoVars, connects, dials>>

(* Connection.release on a handle whose _closed is set: _notify_release    *)
(* and nothing else                                                        *)
HandleReleaseAgain(t) ==
    /\ pc[t] = "holding"
    /\ hClosed[t]
    /\ NotifyRelease(t)
    /\ Called(t, "release")
    /\ raised' = "none"
    /\ UNCHANGED <<registered, hShould>>
    /\ UNCHANGED dnsVars
    /\ UNCHANGED <<cfgVars, poolVars, taskVars, cleanupVars, protoVars, now, connects,
                   dials>>

(* Connection.close on a handle whose _closed is set: _notify_release and  *)
(* nothing else, the coroutine ends without a suspension                   *)
HandleCloseAgain(t) ==
    /\ pc[t] = "holding"
    /\ hClosed[t]
    /\ NotifyRelease(t)
    /\ Called(t, "close")
    /\ raised' = "none"
    /\ UNCHANGED <<registered, hShould>>
    /\ UNCHANGED dnsVars
    /\ UNCHANGED <<cfgVars, poolVars, taskVars, cleanupVars, protoVars, now, connects,
                   dials>>

(* Connection.close up to its await proto.close()                          *)
HandleCloseStart(t) ==
    /\ pc[t] = "holding"
    /\ ~hClosed[t]
    /\ closing[t] < MaxClosers
    /\ NotifyRelease(t)
    /\ Called(t, "close")
    /\ release(key[t], proto[t], TRUE)
    /\ hShould' = TRUE
    /\ closeCalls' = Closed(closeCalls, {proto[t]})
    /\ closing' = [closing EXCEPT ![t] = @ + 1]
    /\ raised' = "none"
    /\ UNCHANGED registered
    /\ UNCHANGED dnsVars
    /\ UNCHANGED <<cfgVars, closed, now, pc, key, call, getList, getT1, proto, hClosed,
                   startedClosed, cleanupVars, connected, connects, dials>>

(* Connection.close resumes from proto.close(): self._closed = True        *)
HandleCloseDone(t) ==
    /\ pc[t] = "holding"
    /\ closing[t] > 0
    /\ closing' = [closing EXCEPT ![t] = @ - 1]
    /\ hClosed' = [hClosed EXCEPT ![t] = TRUE]
    /\ raised' = "none"
    /\ connected' = [connected EXCEPT ![proto[t]] = FALSE]
    /\ UNCHANGED handleVars
    /\ UNCHANGED dnsVars
    /\ UNCHANGED <<cfgVars, poolVars, now, pc, key, call, getList, getT1, proto,
                   startedClosed, cleanupVars, closeCalls, connects, dials>>

(***************************************************************************)
(* BaseConnector.close                                                     *)
(***************************************************************************)
Close ==
    /\ closePc = "none"
    /\ closed' = TRUE
    /\ wakeup' = TRUE
    /\ closePc' = "awaiting"
    /\ raised' = "none"
    /\ UNCHANGED handleVars
    /\ UNCHANGED dnsVars
    /\ UNCHANGED <<cfgVars, conns, heap, acquired, acquired_per_host, waiters, futs,
                   now, taskVars, cleanupPc, cleanupWhen, cleanupClosing, protoVars,
                   connects, dials>>

(* await self._cleanup_task returns                                        *)
CloseReturn ==
    /\ closePc = "awaiting"
    /\ cleanupPc = "done"
    /\ closePc' = "returned"
    /\ raised' = "none"
    /\ UNCHANGED handleVars
    /\ UNCHANGED dnsVars
    /\ UNCHANGED <<cfgVars, poolVars, now, taskVars, cleanupPc, cleanupWhen,
                   cleanupClosing, protoVars, connects, dials>>

(***************************************************************************)
(* BaseConnector._cleanup                                                  *)
(***************************************************************************)
ToClose(e) == connected[e[1]] /\ (e[2] - (now - Delay) < 0 \/ closed)
Alive(e) == connected[e[1]] /\ ~(e[2] - (now - Delay) < 0 \/ closed)

(* lines 310-326: [conns, heap, to_close] after the partition              *)
Sweep(cn, hp) ==
    IF DOMAIN cn = {}
    THEN [conns |-> cn, heap |-> hp, to_close |-> {}]
    ELSE LET kept == {k \in DOMAIN cn : SelectSeq(hp[cn[k]], Alive) # <<>>}
             free == ListIds \ ({getList[t] : t \in Tasks} \ {NoList})
             rank(k) == Card({j \in kept : j <= k})
             ncn == [k \in kept |-> NthFree(free, rank(k))]
             nhp == [i \in ListIds |->
                       IF \E k \in kept : ncn[k] = i
                       THEN SelectSeq(hp[cn[CHOOSE k \in kept : ncn[k] = i]], Alive)
                       ELSE hp[i]]
         IN [conns |-> ncn,
             heap |-> Gc(nhp, ncn, getList),
             to_close |-> UNION {{hp[cn[k]][i][1] : i \in
                                    {j \in 1..Len(hp[cn[k]]) : ToClose(hp[cn[k]][j])}} :
                                 k \in DOMAIN cn}]

(* The top of the while loop: leave if closed, else wait for the event or  *)
(* the deadline.                                                           *)
LoopTop ==
    IF closed
    THEN cleanupPc' = "done" /\ cleanupWhen' = 0
    ELSE cleanupPc' = "wait" /\ cleanupWhen' = now + Delay

(* lines 306-327: clear the event and sweep                                *)
DoSweep ==
    LET s == Sweep(conns, heap)
    IN /\ wakeup' = FALSE
       /\ conns' = s.conns
       /\ heap' = s.heap
       /\ cleanupClosing' = s.to_close
       /\ closeCalls' = Closed(closeCalls, s.to_close)
       /\ IF s.to_close # {}
          THEN cleanupPc' = "gather" /\ cleanupWhen' = 0
          ELSE LoopTop

(* lines 301-327: woken by the event or by the deadline                    *)
CleanupWake ==
    /\ cleanupPc = "wait"
    /\ wakeup \/ now >= cleanupWhen
    /\ DoSweep
    /\ raised' = "none"
    /\ UNCHANGED handleVars
    /\ UNCHANGED dnsVars
    /\ UNCHANGED <<cfgVars, closed, acquired, acquired_per_host, waiters, futs, now,
                   taskVars, closePc, connected, connects, dials>>

(* lines 327-330 and the next turn of the loop: the gathered closes ended; *)
(* with the event already set the wait returns at once                     *)
CleanupGatherDone ==
    /\ cleanupPc = "gather"
    /\ connected' = [p \in Protos |-> connected[p] /\ p \notin cleanupClosing]
    /\ IF ~closed /\ wakeup
       THEN DoSweep
       ELSE /\ LoopTop
            /\ cleanupClosing' = {}
            /\ UNCHANGED <<wakeup, conns, heap, closeCalls>>
    /\ raised' = "none"
    /\ UNCHANGED handleVars
    /\ UNCHANGED dnsVars
    /\ UNCHANGED <<cfgVars, closed, acquired, acquired_per_host, waiters, futs, now,
                   taskVars, closePc, connects, dials>>

(***************************************************************************)
(* The environment: the clock advances; a peer drops an idle connection.   *)
(* The clock is observed only through the idle entries, so it advances     *)
(* only while there are some, up to MaxTime; only connections that are in  *)
(* an idle list are dropped.                                               *)
(***************************************************************************)
Tick ==
    /\ now < MaxTime
    /\ (\E i \in ListIds : heap[i] # <<>>) \/ timestamps # EmptyDict
    /\ now' = now + 1
    /\ raised' = "none"
    /\ UNCHANGED handleVars
    /\ UNCHANGED dnsVars
    /\ UNCHANGED <<cfgVars, poolVars, taskVars, cleanupVars, protoVars, connects, dials>>

Disconnect(p) ==
    /\ connected[p]
    /\ \E i \in ListIds : \E j \in 1..Len(heap[i]) : heap[i][j][1] = p
    /\ connected' = [connected EXCEPT ![p] = FALSE]
    /\ raised' = "none"
    /\ UNCHANGED handleVars
    /\ UNCHANGED dnsVars
    /\ UNCHANGED <<cfgVars, poolVars, taskVars, cleanupVars, closeCalls, now, connects,
                   dials>>

(***************************************************************************)
(* _DNSCacheTable                                                          *)
(***************************************************************************)
(* ttl=None: the entries never expire; otherwise the ttl in the model's    *)
(* clock units                                                             *)
NoTtl == 0
DnsTtl == 1

(* the lists the resolver can answer with (List[Dict[str, Any]]): zero to  *)
(* MaxAddrs distinct address records                                       *)
Answers ==
    {a \in UNION {[1..n -> 1..MaxAddrs] : n \in 0..MaxAddrs} :
        \A i, j \in DOMAIN a : a[i] = a[j] => i = j}

(* itertools.cycle(addrs): the saved list and the number of elements       *)
(* taken from the iterator so far                                          *)
cycle(a) == [addrs |-> a, taken |-> 0]

(* the i-th element the cycle c yields from now on                         *)
Yield(c, i) == c.addrs[((c.taken + i - 1) % Len(c.addrs)) + 1]

(* list(islice(loop, n)): the next n elements of the cycle; an empty cycle *)
(* yields nothing                                                          *)
islice(c, n) == IF Len(c.addrs) = 0 THEN <<>> ELSE [i \in 1..n |-> Yield(c, i)]

(* the cycle after n elements were taken                                   *)
Taken(c, n) == [c EXCEPT !.taken = @ + n]

(* _DNSCacheTable.next_addrs: list(islice(loop, length)), then next(loop), *)
(* which raises StopIteration on the cycle of an empty list                *)
next_addrs(ch, k) ==
    LET c == ch[k]
        length == Len(c.addrs)
    IN [addrs |-> islice(c, length),
        raises |-> length = 0,
        table |-> IF length = 0 THEN ch ELSE [ch EXCEPT ![k] = Taken(c, length + 1)]]

(* the outcome of return self._cached_hosts.next_addrs(key)                *)
Returned(r) == IF r.raises THEN Err("StopIteration", 0) ELSE Ok(r.addrs)

(* _DNSCacheTable.expired                                                  *)
expired(k) ==
    IF ttl_dns_cache = NoTtl THEN FALSE ELSE timestamps[k] + ttl_dns_cache < now

(* _DNSCacheTable.add followed by next_addrs, as the leader of a lookup    *)
(* runs them                                                               *)
AddAndNext(k, a) ==
    LET r == next_addrs(DictSet(cached_hosts, k, cycle(a)), k)
    IN /\ cached_hosts' = r.table
       /\ served' = DictSet(served, k, 1)
       /\ timestamps' = IF ttl_dns_cache = NoTtl THEN timestamps
                        ELSE DictSet(timestamps, k, now)

(* TCPConnector.clear_dns_cache(host, port): _DNSCacheTable.remove         *)
ClearDnsCache(k) ==
    /\ k \in DOMAIN cached_hosts
    /\ cached_hosts' = DictDel(cached_hosts, k)
    /\ served' = DictDel(served, k)
    /\ timestamps' = DictDel(timestamps, k)
    /\ raised' = "none"
    /\ UNCHANGED <<use_dns_cache, ttl_dns_cache, throttle_dns_events, events, dpc, rpc,
                   rkey, rev, rres, resolves, loopVars, proxyVars>>
    /\ UNCHANGED <<cfgVars, poolVars, taskVars, cleanupVars, protoVars, handleVars, now,
                   connects, dials>>

(***************************************************************************)
(* TCPConnector._resolve_host, run as the task host_resolved of the dial d *)
(***************************************************************************)
DnsFrame ==
    /\ raised' = "none"
    /\ UNCHANGED <<use_dns_cache, ttl_dns_cache, rkey, dpc, loopVars, proxyVars>>
    /\ UNCHANGED <<cfgVars, poolVars, taskVars, cleanupVars, protoVars, handleVars, now,
                   connects, dials>>

(* EventResultOrError, the broadcast event of the gate: set() and          *)
(* set(exc=e) signal it with OK or with the error, wait() returns once it  *)
(* is signalled and raises the error it was signalled with                 *)
IsSet(ev) == ev.kind # "none"
WaitRaises(ev) == ev.kind = "error"

(* a gate that keeps the entry of k                                        *)
keep_event(g, k) == g

(* finally: self._throttle_dns_events.pop(key)                             *)
pop_event(g, k) ==
    DictDel(g, k)

(* await self._resolver.resolve(host, port, family=self._family)           *)
CallResolver(d) ==
    /\ rpc' = [rpc EXCEPT ![d] = "resolving"]
    /\ resolves' = resolves + 1

(* the task runs from its start to its first suspension or its end         *)
ResolveEnter(d) ==
    /\ rpc[d] = "start"
    /\ LET k == rkey[d]
       IN IF ~use_dns_cache
          THEN /\ IF traced
                  THEN rpc' = [rpc EXCEPT ![d] = "start_trace"] /\ UNCHANGED resolves
                  ELSE CallResolver(d)
               /\ UNCHANGED <<cached_hosts, served, timestamps, throttle_dns_events, events,
                              rev, rres>>
          ELSE IF k \in DOMAIN cached_hosts /\ ~expired(k)
          THEN \* get result early, before any await
               LET r == next_addrs(cached_hosts, k)
               IN /\ cached_hosts' = r.table
                  /\ served' = [served EXCEPT ![k] = @ + 1]
                  /\ rres' = [rres EXCEPT ![d] = Returned(r)]
                  /\ rpc' = [rpc EXCEPT ![d] = IF traced /\ ~r.raises THEN "hit_trace"
                                             ELSE "done"]
                  /\ UNCHANGED <<timestamps, throttle_dns_events, events, rev, resolves>>
          ELSE IF k \in DOMAIN throttle_dns_events
          THEN \* get event early, before any await
               /\ rev' = [rev EXCEPT ![d] = throttle_dns_events[k]]
               /\ rpc' = [rpc EXCEPT ![d] = IF traced THEN "wait_trace" ELSE "waiting"]
               /\ UNCHANGED <<cached_hosts, served, timestamps, throttle_dns_events, events,
                              rres, resolves>>
          ELSE \* update dict early, before any await
               /\ throttle_dns_events' = DictSet(throttle_dns_events, k, d)
               /\ events' = [events EXCEPT ![d] = NoResult]
               /\ rev' = [rev EXCEPT ![d] = d]
               /\ IF traced
                  THEN rpc' = [rpc EXCEPT ![d] = "miss_trace"] /\ UNCHANGED resolves
                  ELSE CallResolver(d)
               /\ UNCHANGED <<cached_hosts, served, timestamps, rres>>
    /\ DnsFrame

(* the dns_cache_miss trace has returned: the try block is entered         *)
MissTraceDone(d) ==
    /\ rpc[d] = "miss_trace"
    /\ rpc' = [rpc EXCEPT ![d] = "start_trace"]
    /\ UNCHANGED <<cached_hosts, served, timestamps, throttle_dns_events, events, rev, rres,
                   resolves>>
    /\ DnsFrame

(* the dns_resolvehost_start trace has returned                            *)
StartTraceDone(d) ==
    /\ rpc[d] = "start_trace"
    /\ CallResolver(d)
    /\ UNCHANGED <<cached_hosts, served, timestamps, throttle_dns_events, events, rev, rres>>
    /\ DnsFrame

(* with the cache: _cached_hosts.add, event.set(), the pop of the finally  *)
(* clause and the final next_addrs; without it: return res                 *)
Store(d, a) ==
    /\ rpc' = [rpc EXCEPT ![d] = "done"]
    /\ IF rev[d] = NoEvent
       THEN /\ rres' = [rres EXCEPT ![d] = Ok(a)]
            /\ UNCHANGED <<cached_hosts, served, timestamps, throttle_dns_events, events>>
       ELSE /\ AddAndNext(rkey[d], a)
            /\ rres' = [rres EXCEPT ![d] =
                           Returned(next_addrs(DictSet(cached_hosts, rkey[d], cycle(a)),
                                               rkey[d]))]
            /\ events' = [events EXCEPT ![d] = Ok(<<>>)]
            /\ throttle_dns_events' = pop_event(throttle_dns_events, rkey[d])

(* the resolver answers                                                    *)
ResolverReturn(d, a) ==
    /\ rpc[d] = "resolving"
    /\ IF traced
       THEN /\ rpc' = [rpc EXCEPT ![d] = "end_trace"]
            /\ rres' = [rres EXCEPT ![d] = Ok(a)]
            /\ UNCHANGED <<cached_hosts, served, timestamps, throttle_dns_events, events>>
       ELSE Store(d, a)
    /\ UNCHANGED <<rev, resolves>>
    /\ DnsFrame

(* the dns_resolvehost_end trace has returned                              *)
EndTraceDone(d) ==
    /\ rpc[d] = "end_trace"
    /\ Store(d, rres[d].addrs)
    /\ UNCHANGED <<rev, resolves>>
    /\ DnsFrame

(* the resolver raises: with the cache, event.set(exc=e), raise, and the   *)
(* pop of the finally clause                                               *)
ResolverFail(d) ==
    /\ rpc[d] = "resolving"
    /\ rpc' = [rpc EXCEPT ![d] = "done"]
    /\ rres' = [rres EXCEPT ![d] = Err("error", d)]
    /\ IF rev[d] = NoEvent
       THEN UNCHANGED <<throttle_dns_events, events>>
       ELSE /\ events' = [events EXCEPT ![d] = Err("error", d)]
            /\ throttle_dns_events' = pop_event(throttle_dns_events, rkey[d])
    /\ UNCHANGED <<cached_hosts, served, timestamps, rev, resolves>>
    /\ DnsFrame

(* the dns_cache_hit trace of a task that found the event has returned:    *)
(* await event.wait()                                                      *)
WaitTraceDone(d) ==
    /\ rpc[d] = "wait_trace"
    /\ rpc' = [rpc EXCEPT ![d] = "waiting"]
    /\ UNCHANGED <<cached_hosts, served, timestamps, throttle_dns_events, events, rev, rres,
                   resolves>>
    /\ DnsFrame

(* event.wait() returns or raises the exception the event was set with;    *)
(* then return self._cached_hosts.next_addrs(key)                          *)
WaitDone(d) ==
    /\ rpc[d] = "waiting"
    /\ IsSet(events[rev[d]])
    /\ rpc' = [rpc EXCEPT ![d] = "done"]
    /\ IF WaitRaises(events[rev[d]])
       THEN /\ rres' = [rres EXCEPT ![d] = events[rev[d]]]
            /\ UNCHANGED <<cached_hosts, served>>
       ELSE IF rkey[d] \in DOMAIN cached_hosts
       THEN LET r == next_addrs(cached_hosts, rkey[d])
            IN /\ cached_hosts' = r.table
               /\ served' = [served EXCEPT ![rkey[d]] = @ + 1]
               /\ rres' = [rres EXCEPT ![d] = Returned(r)]
       ELSE /\ rres' = [rres EXCEPT ![d] = Err("KeyError", 0)]
            /\ UNCHANGED <<cached_hosts, served>>
    /\ UNCHANGED <<timestamps, throttle_dns_events, events, rev, resolves>>
    /\ DnsFrame

(* the dns_cache_hit trace of a task that found the entry has returned     *)
HitTraceDone(d) ==
    /\ rpc[d] = "hit_trace"
    /\ rpc' = [rpc EXCEPT ![d] = "done"]
    /\ UNCHANGED <<cached_hosts, served, timestamps, throttle_dns_events, events, rev, rres,
                   resolves>>
    /\ DnsFrame

(***************************************************************************)
(* TCPConnector._create_direct_connection up to the list of hosts          *)
(***************************************************************************)
ResolvedFrame ==
    /\ raised' = "none"
    /\ UNCHANGED proxyVars
    /\ UNCHANGED <<use_dns_cache, ttl_dns_cache, cached_hosts, served, timestamps,
                   throttle_dns_events, events, rev, rres, resolves>>
    /\ UNCHANGED <<cfgVars, poolVars, taskVars, cleanupVars, protoVars, handleVars, now,
                   connects, dials>>

DialFrame ==
    /\ raised' = "none"
    /\ UNCHANGED <<loopVars, proxyVars>>
    /\ UNCHANGED <<use_dns_cache, ttl_dns_cache, cached_hosts, served, timestamps,
                   throttle_dns_events, events, rev, rres, resolves>>
    /\ UNCHANGED <<cfgVars, poolVars, taskVars, cleanupVars, protoVars, handleVars, now,
                   connects, dials>>

(* host_resolved = asyncio.ensure_future(self._resolve_host(...)) and      *)
(* await asyncio.shield(host_resolved)                                     *)
create_direct_connection(d, k) ==
    /\ dpc[d] = "idle"
    /\ \A e \in Dials : e < d => dpc[e] # "idle"
    /\ dpc' = [dpc EXCEPT ![d] = "resolve"]
    /\ rpc' = [rpc EXCEPT ![d] = "start"]
    /\ rkey' = [rkey EXCEPT ![d] = k]
    /\ DialFrame

(* the task has ended: hosts is its result, or its exception is raised     *)
HostsResolved(d) ==
    /\ dpc[d] = "resolve"
    /\ rpc[d] = "done"
    /\ dpc' = [dpc EXCEPT ![d] = IF rres[d].kind = "ok" THEN "connect" ELSE "failed"]
    /\ UNCHANGED <<rpc, rkey>>
    /\ DialFrame

(* asyncio.shield: the cancellation of the waiting dial does not reach     *)
(* the task, which stays where it is                                       *)
shield(r) == r

(* the dial is cancelled in await asyncio.shield(host_resolved):           *)
(* add_done_callback(drop_exception) and raise                             *)
CancelResolve(d) ==
    /\ dpc[d] = "resolve"
    /\ dpc' = [dpc EXCEPT ![d] = "cancelled"]
    /\ rpc' = [rpc EXCEPT ![d] = shield(rpc[d])]
    /\ UNCHANGED rkey
    /\ DialFrame

(* drop_exception, the done callback of the task of a cancelled dial:      *)
(* fut.result() under suppress(Exception, asyncio.CancelledError)          *)
drop_exception(d) ==
    /\ dpc[d] = "cancelled"
    /\ rpc[d] = "done"
    /\ dpc' = [dpc EXCEPT ![d] = "dropped"]
    /\ UNCHANGED <<rpc, rkey>>
    /\ DialFrame

(***************************************************************************)
(* TCPConnector._create_direct_connection, the loop over the hosts, and    *)
(* TCPConnector._wrap_create_connection.  hinfo[d] is the position of the  *)
(* loop in hosts, tried[d] the attempts made so far with what              *)
(* loop.create_connection and fingerprint.check did, dret[d] the way the   *)
(* coroutine ended.                                                        *)
(***************************************************************************)
client_error == "ClientConnectorError"

(* the except clauses of _wrap_create_connection, in their order; os tells *)
(* whether asyncio.TimeoutError is an OSError in the running interpreter   *)
wrap_create_connection(out, os) ==
    CASE out = "cert_errors" -> "ClientConnectorCertificateError"
      [] out = "ssl_errors" -> "ClientConnectorSSLError"
      [] out = "OSError" -> client_error
      [] out = "TimeoutError" -> IF os THEN client_error ELSE "TimeoutError"

(* except ClientConnectorError: the class and its subclasses               *)
IsClientConnectorError(e) ==
    e \in {"ClientConnectorError", "ClientConnectorCertificateError",
           "ClientConnectorSSLError"}

Outcomes ==
    {"connected", "mismatch", "OSError", "ssl_errors", "cert_errors", "TimeoutError"}

(* one turn of for hinfo in hosts, up to return, continue, the exception   *)
(* that leaves the loop, or await proto.close()                            *)
TryHost(d, out, os) ==
    /\ dpc[d] = "connect"
    /\ hinfo[d] <= Len(rres[d].addrs)
    /\ tried' = [tried EXCEPT ![d] =
                    Append(@, [addr |-> rres[d].addrs[hinfo[d]], out |-> out])]
    /\ IF out = "connected"
         THEN /\ dpc' = [dpc EXCEPT ![d] = "returned"]
              /\ dret' = [dret EXCEPT ![d] =
                             [kind |-> "return", val |-> rres[d].addrs[hinfo[d]]]]
              /\ UNCHANGED <<hinfo, last_exc>>
         ELSE IF out = "mismatch"
         THEN /\ dpc' = [dpc EXCEPT ![d] = "close"]
              /\ UNCHANGED <<hinfo, last_exc, dret>>
         ELSE LET exc == wrap_create_connection(out, os)
              IN IF IsClientConnectorError(exc)
                 THEN /\ last_exc' = [last_exc EXCEPT ![d] = exc]
                      /\ hinfo' = [hinfo EXCEPT ![d] = @ + 1]
                      /\ UNCHANGED <<dpc, dret>>
                 ELSE /\ dpc' = [dpc EXCEPT ![d] = "failed"]
                      /\ dret' = [dret EXCEPT ![d] = [kind |-> "raise", val |-> exc]]
                      /\ UNCHANGED <<hinfo, last_exc>>
    /\ UNCHANGED <<rpc, rkey>>
    /\ ResolvedFrame

(* except ServerFingerprintMismatch, after await proto.close()             *)
ProtoClosed(d) ==
    /\ dpc[d] = "close"
    /\ last_exc' = [last_exc EXCEPT ![d] = "ServerFingerprintMismatch"]
    /\ hinfo' = [hinfo EXCEPT ![d] = @ + 1]
    /\ dpc' = [dpc EXCEPT ![d] = "connect"]
    /\ UNCHANGED <<tried, dret, rpc, rkey>>
    /\ ResolvedFrame

(* after the loop: assert last_exc is not None; raise last_exc.  With      *)
(* last_exc None the assert fails, or, with asserts compiled out, raise    *)
(* None fails with TypeError.                                              *)
RaiseLast(d) ==
    /\ dpc[d] = "connect"
    /\ hinfo[d] > Len(rres[d].addrs)
    /\ dpc' = [dpc EXCEPT ![d] = "failed"]
    /\ \E e \in IF last_exc[d] = "None" THEN {"AssertionError", "TypeError"}
                 ELSE {last_exc[d]} :
           dret' = [dret EXCEPT ![d] = [kind |-> "raise", val |-> e]]
    /\ UNCHANGED <<hinfo, last_exc, tried, rpc, rkey>>
    /\ ResolvedFrame

LoopSteps(d) ==
    \/ \E out \in Outcomes, os \in BOOLEAN : TryHost(d, out, os)
    \/ ProtoClosed(d)
    \/ RaiseLast(d)

(***************************************************************************)
(* The steps of the program, grouped by who takes them.                    *)
(***************************************************************************)
ConnectSteps(t) ==
    \/ WaiterResume(t)
    \/ DialSucceed(t)
    \/ DialFail(t)

TraceSteps(t) ==
    \/ QueuedStartDone(t)
    \/ QueuedEndDone(t)
    \/ CreateStartDone(t)
    \/ CreateEndDone(t)
    \/ ReuseDone(t)

CancelSteps(t) ==
    \/ CancelWaiting(t)
    \/ CancelOutsideTry(t)
    \/ CancelDial(t)

HandleSteps(t) ==
    \/ HandleRelease(t)
    \/ HandleCloseStart(t)
    \/ HandleCloseDone(t)

(* calls on a Connection whose _closed is set: they read and write the     *)
(* Connection's callbacks and nothing of the connector                     *)
HandleAgainSteps(t) ==
    \/ HandleReleaseAgain(t)
    \/ HandleCloseAgain(t)

CleanupSteps ==
    \/ CleanupWake
    \/ CleanupGatherDone

CloseSteps ==
    \/ Close
    \/ CloseReturn
    \/ \E t \in Tasks : DialCloseDone(t)

EnvSteps ==
    \/ Tick
    \/ \E p \in Protos : Disconnect(p)

InitCfg(l, h, fc, tr) ==
    /\ limit = l
    /\ limit_per_host = h
    /\ force_close = fc
    /\ traced = tr

(* TCPConnector.__init__: use_dns_cache and ttl_dns_cache                  *)
InitDnsCfg(udc, ttl) ==
    /\ use_dns_cache = udc
    /\ ttl_dns_cache = ttl

(* the steps of the task host_resolved of the dial d                       *)
ResolveSteps(d) ==
    \/ ResolveEnter(d)
    \/ MissTraceDone(d) \/ StartTraceDone(d) \/ EndTraceDone(d)
    \/ WaitTraceDone(d) \/ HitTraceDone(d)
    \/ \E a \in Answers : ResolverReturn(d, a)
    \/ ResolverFail(d)
    \/ WaitDone(d)

(* the steps of the dial d around its task                                 *)
DialSteps(d) ==
    \/ \E k \in Hosts : create_direct_connection(d, k)
    \/ HostsResolved(d)
    \/ CancelResolve(d)
    \/ drop_exception(d)

(***************************************************************************)
(* Spec: every step of the connector, two concurrent callers of connect on *)
(* a connector with limit_per_host = 1, with and without trace callbacks.  *)
(***************************************************************************)
Init ==
    /\ \E tr \in BOOLEAN : InitCfg(0, 1, FALSE, tr)
    /\ InitDnsCfg(TRUE, NoTtl)
    /\ InitPool

Connect(t, k) == connects < SpecConnects /\ ConnectStart(t, k)

Next ==
    \/ \E t \in 1..SpecTasks, k \in Keys : Connect(t, k)
    \/ \E t \in Tasks : ConnectSteps(t) \/ GetCloseDone(t)
    \/ \E t \in Tasks : TraceSteps(t)
    \/ \E t \in Tasks : CancelSteps(t)
    \/ \E t \in Tasks : HandleSteps(t)
    \/ CleanupSteps
    \/ CloseSteps
    \/ EnvSteps

Spec == Init /\ [][Next]_vars

(***************************************************************************)
(* SpecQueue: three concurrent callers on a connector without trace        *)
(* callbacks, with limit = 1 or with limit_per_host = 1; the callers       *)
(* acquire, wait, get cancelled and release.                               *)
(***************************************************************************)
InitQueue ==
    /\ \/ InitCfg(1, 0, FALSE, FALSE)
       \/ InitCfg(0, 1, FALSE, FALSE)
    /\ InitDnsCfg(TRUE, NoTtl)
    /\ InitPool

NextQueue ==
    \/ \E t \in Tasks, k \in Keys : ConnectStart(t, k)
    \/ \E t \in Tasks : ConnectSteps(t)
    \/ \E t \in Tasks : CancelWaiting(t) \/ CancelDial(t)
    \/ \E t \in Tasks : HandleRelease(t)

SpecQueue == InitQueue /\ [][NextQueue]_vars

(***************************************************************************)
(* FairQueue: SpecQueue on an event loop that runs every task that is      *)
(* ready: a caller whose future is done resumes, every dial ends, and      *)
(* every caller that holds a Connection releases it.  Calls and            *)
(* cancellations are under no obligation.                                  *)
(***************************************************************************)
Fairness ==
    \A t \in Tasks :
        /\ WF_vars(WaiterResume(t))
        /\ WF_vars(DialSucceed(t) \/ DialFail(t))
        /\ WF_vars(HandleRelease(t))

FairQueue == SpecQueue /\ Fairness

(***************************************************************************)
(* SpecIdle: three callers of one key on a connector without limits; the   *)
(* idle list is filled, ages, loses connections and is swept while         *)
(* callers reuse its entries.                                              *)
(***************************************************************************)
InitIdle ==
    /\ InitCfg(0, 0, FALSE, FALSE)
    /\ InitDnsCfg(TRUE, NoTtl)
    /\ InitPool

NextIdle ==
    \/ \E t \in Tasks : ConnectStart(t, 1)
    \/ \E t \in Tasks : DialSucceed(t)
    \/ \E t \in Tasks : GetCloseDone(t)
    \/ \E t \in Tasks : HandleRelease(t)
    \/ CleanupSteps
    \/ EnvSteps

SpecIdle == InitIdle /\ [][NextIdle]_vars

(***************************************************************************)
(* SpecHandle: two callers of one key on a connector without limits; each  *)
(* registers release callbacks on the Connection it got and calls release  *)
(* and close on it, any number of times in any order.                      *)
(***************************************************************************)
InitHandle ==
    /\ InitCfg(0, 0, FALSE, FALSE)
    /\ InitDnsCfg(TRUE, NoTtl)
    /\ InitPool

NextHandle ==
    \/ \E t \in 1..SpecTasks : Connect(t, 1)
    \/ \E t \in Tasks : DialSucceed(t)
    \/ \E t \in Tasks : add_callback(t)
    \/ \E t \in Tasks : HandleSteps(t)
    \/ \E t \in Tasks : HandleAgainSteps(t)

SpecHandle == InitHandle /\ [][NextHandle]_vars

(***************************************************************************)
(* SpecForce: two callers of one key on a connector without limits, with   *)
(* and without force_close; they acquire, release and close their          *)
(* Connection while the idle list ages and is swept.                       *)
(***************************************************************************)
InitForce ==
    /\ \E fc \in BOOLEAN : InitCfg(0, 0, fc, FALSE)
    /\ InitDnsCfg(TRUE, NoTtl)
    /\ InitPool

NextForce ==
    \/ \E t \in 1..SpecTasks : Connect(t, 1)
    \/ \E t \in Tasks : DialSucceed(t)
    \/ \E t \in Tasks : GetCloseDone(t)
    \/ \E t \in Tasks : HandleSteps(t)
    \/ CleanupSteps
    \/ EnvSteps

SpecForce == InitForce /\ [][NextForce]_vars

(***************************************************************************)
(* SpecAvail: two callers of two keys on connectors with every limit and   *)
(* limit_per_host from 0 to MaxLimit, without trace callbacks; the callers *)
(* acquire, wait, get cancelled and release, and every acquire and every   *)
(* wake-up computes _available_connections.                                *)
(***************************************************************************)
InitAvail ==
    /\ \E l, h \in 0..MaxLimit : InitCfg(l, h, FALSE, FALSE)
    /\ InitDnsCfg(TRUE, NoTtl)
    /\ InitPool

NextAvail ==
    \/ \E t \in 1..SpecTasks, k \in Keys : Connect(t, k)
    \/ \E t \in Tasks : ConnectSteps(t)
    \/ \E t \in Tasks : CancelWaiting(t) \/ CancelDial(t)
    \/ \E t \in Tasks : HandleRelease(t)

SpecAvail == InitAvail /\ [][NextAvail]_vars

(***************************************************************************)
(* SpecDns: three dials of a TCPConnector resolve one host name, with      *)
(* and without the DNS cache, with and without a ttl, with and without     *)
(* trace callbacks; the resolver answers or fails, dials are cancelled     *)
(* while they wait, the clock advances and clear_dns_cache is called.      *)
(***************************************************************************)
InitDns ==
    /\ \E tr \in BOOLEAN : InitCfg(0, 0, FALSE, tr)
    /\ \E udc \in BOOLEAN, ttl \in {NoTtl, DnsTtl} : InitDnsCfg(udc, ttl)
    /\ InitPool

NextDns ==
    \/ \E d \in Dials : ResolveSteps(d)
    \/ \E d \in Dials : DialSteps(d)
    \/ \E k \in Hosts : ClearDnsCache(k)
    \/ Tick

SpecDns == InitDns /\ [][NextDns]_vars

(***************************************************************************)
(* SpecProxy: two callers of connect for an https endpoint, through a      *)
(* proxy and without it, on a connector without limits.                    *)
(***************************************************************************)
InitProxy ==
    /\ \E tr \in BOOLEAN : InitCfg(0, 0, FALSE, tr)
    /\ InitDnsCfg(TRUE, NoTtl)
    /\ InitPool

NextProxy ==
    \/ \E t \in 1..SpecTasks, k \in Keys : Connect(t, k)
    \/ \E t \in Tasks : DirectDialed(t) \/ DialFail(t)
    \/ \E t \in Tasks : ProxySteps(t)
    \/ \E t \in Tasks : CreateStartDone(t) \/ CreateEndDone(t) \/ ReuseDone(t)
    \/ \E t \in Tasks : HandleSteps(t)

SpecProxy == InitProxy /\ [][NextProxy]_vars

(***************************************************************************)
(* SpecDial: dials of one host from the lookup to the end of the loop over *)
(* the resolved addresses, with and without the DNS cache.                 *)
(***************************************************************************)
InitDial ==
    /\ \E tr \in BOOLEAN : InitCfg(0, 0, FALSE, tr)
    /\ \E udc \in BOOLEAN : InitDnsCfg(udc, NoTtl)
    /\ InitPool

NextDial ==
    \/ \E d \in 1..SpecDials : ResolveSteps(d)
    \/ \E d \in 1..SpecDials, k \in Hosts : create_direct_connection(d, k)
    \/ \E d \in 1..SpecDials : HostsResolved(d)
    \/ \E d \in 1..SpecDials : LoopSteps(d)

SpecDial == InitDial /\ [][NextDial]_vars

(***************************************************************************)
(* The properties checked, in the order of the claims.                     *)
(***************************************************************************)

\* C1: with limit > 0, acquired (leased protocols and placeholders) of an
\* open connector never holds more than limit entries.
C1_LimitBound ==
    (limit > 0 /\ ~closed) => Card(acquired) <= limit

\* C2: with limit_per_host > 0, acquired_per_host[k] of an open connector
\* never holds more than limit_per_host entries, for every key k.
C2_PerHostBound ==
    (limit_per_host > 0 /\ ~closed) =>
        \A k \in DOMAIN acquired_per_host :
            Card(acquired_per_host[k]) <= limit_per_host

\* C3: a call of connect that started after close() was called never
\* returns a handle.
C3_ClosedAcquireFails ==
    \A t \in Tasks : ~(pc[t] = "holding" /\ startedClosed[t])

\* C4: once close() has returned, the idle map is empty and the cleanup
\* task has ended.
C4_CloseEmptiesIdle ==
    closePc = "returned" => (DOMAIN conns = {} /\ cleanupPc = "done")

(* The handle of task t is finished: released or closed, no close pending. *)
HandleDone(t) == pc[t] = "holding" /\ hClosed[t] /\ closing[t] = 0

(* Protocol p is lost: the connector is closed and its cleanup task has    *)
(* ended, p is still in acquired, the only handle of p is finished and     *)
(* close() of p was never called.                                          *)
Lost(p) ==
    /\ closed /\ cleanupPc = "done"
    /\ p \in acquired
    /\ closeCalls[p] = 0
    /\ \A t \in Tasks : (proto[t] = p /\ pc[t] # "idle") => HandleDone(t)

\* C5: close() disposes the protocols the connector owns: once the
\* connector is closed and its cleanup task has ended, no protocol is left
\* in acquired with its handle finished and its close() never called.
C5_CloseDisposes ==
    \A p \in Protos : ~Lost(p)

(* A lost protocol stays lost: no later step calls its close().            *)
LostForever ==
    [][\A p \in Protos : Lost(p) => closeCalls'[p] = 0]_vars

\* C6: |acquired| is the sum over the keys k of |acquired_per_host[k]|,
\* placeholders counted on both sides.
C6_AcquiredCount ==
    Card(acquired) = SumOver(acquired_per_host, DOMAIN acquired_per_host)

\* Witness of C6: a dial was cancelled on a closed connector, which keeps
\* its placeholder in both containers, next to a leased protocol.
C6_Witness ==
    /\ closed
    /\ raised = "Cancelled"
    /\ \E p \in acquired : p > 0
    /\ \E q \in acquired : q < 0 /\ \A t \in Tasks : call[t] # 0 - q

(* No call of connect is in progress.                                      *)
Quiescent == \A t \in Tasks : pc[t] \in {"idle", "holding"}

(* The protocols of the idle lists, with repetitions.                      *)
IdleSeq(cn, hp) ==
    LET RECURSIVE Cat(_)
        Cat(S) == IF S = {} THEN <<>>
                  ELSE LET k == CHOOSE x \in S : TRUE
                       IN hp[cn[k]] \o Cat(S \ {k})
    IN Cat(DOMAIN cn)

\* C7: when no call is in progress, no protocol is both in an idle list
\* and in acquired, and no protocol is in the idle lists twice.
C7_OneHome ==
    Quiescent =>
        /\ IdleProtos(conns, heap) \cap acquired = {}
        /\ Len(IdleSeq(conns, heap)) = Card(IdleProtos(conns, heap))

\* C8: when no call is in progress, no key maps to an empty container:
\* idle[k], acquired_per_host[k] and waiters[k] are absent or non-empty.
C8_NoEmptyContainers ==
    Quiescent =>
        /\ \A k \in DOMAIN conns : heap[conns[k]] # <<>>
        /\ \A k \in DOMAIN acquired_per_host : acquired_per_host[k] # {}
        /\ \A k \in DOMAIN waiters : waiters[k] # <<>>

(* The calls of connect for key k that are queued: enqueued, and not yet   *)
(* resumed from await fut.                                                 *)
QueuedFor(k) ==
    {u \in Tasks : /\ pc[u] \in {"q_start", "waiting"}
                   /\ key[u] = k
                   /\ futs[call[u]] \in {"pending", "result"}}

(* This step is the start of a call of connect for key k by task t.        *)
StartsConnect(t, k) ==
    /\ connects' = connects + 1
    /\ call'[t] = connects'
    /\ key'[t] = k

\* C9: while a call is queued for key k (its waiter unresolved, or resolved
\* and not yet resumed), a new connect for k enqueues at the tail of
\* waiters[k] instead of going on to take a connection.
C9_NoOvertake ==
    [][\A t \in Tasks, k \in Keys :
          (StartsConnect(t, k) /\ QueuedFor(k) # {}) =>
              /\ pc'[t] \in {"q_start", "waiting"}
              /\ k \in DOMAIN waiters'
              /\ waiters'[k] # <<>>
              /\ Last(waiters'[k]) = call'[t]]_vars

(* Two queued calls of one key, t1 enqueued before t2, both waiters        *)
(* unresolved and not cancelled.                                           *)
QueuedInOrder(t1, t2) ==
    /\ pc[t1] \in {"q_start", "waiting"}
    /\ pc[t2] \in {"q_start", "waiting"}
    /\ key[t1] = key[t2]
    /\ call[t1] < call[t2]
    /\ futs[call[t1]] = "pending"
    /\ futs[call[t2]] = "pending"

\* C10: the waiters of one key are resolved in the order they were
\* enqueued: no step resolves the later of two unresolved, uncancelled
\* waiters of a key while the earlier one stays unresolved.
C10_Fifo ==
    [][\A t1, t2 \in Tasks :
          QueuedInOrder(t1, t2) =>
              ~(futs'[call[t2]] = "result" /\ futs'[call[t1]] = "pending")]_vars

\* Witness of C10: of two calls queued for one key, the earlier one has
\* been resolved and the later one is still waiting.
C10_Witness ==
    \E t1, t2 \in Tasks :
        /\ pc[t1] = "waiting" /\ pc[t2] = "waiting"
        /\ key[t1] = key[t2]
        /\ call[t1] < call[t2]
        /\ futs[call[t1]] = "result"
        /\ futs[call[t2]] = "pending"

(* The waiters this step resolves.                                         *)
ResolvedNow == {c \in Calls : futs[c] = "pending" /\ futs'[c] = "result"}

(* Waiter c is the first unresolved waiter of the queue of key k.          *)
HeadUnresolved(c, k) ==
    \E i \in 1..Len(waiters[k]) :
        /\ waiters[k][i] = c
        /\ \A j \in 1..(i - 1) : futs[waiters[k][j]] # "pending"

(* Key k can be served once this step has freed its slot.                  *)
CanServe(k) ==
    /\ available_connections(k, acquired', acquired_per_host') >= 1
    /\ \E i \in 1..Len(waiters[k]) : futs[waiters[k][i]] = "pending"

(* This step is a release, by a handle, of a protocol that is in acquired  *)
(* of an open connector.                                                   *)
ReleaseFreesSlot ==
    /\ ~closed
    /\ \E t \in Tasks : /\ pc[t] = "holding"
                        /\ proto[t] \in acquired
                        /\ proto[t] \notin acquired'

\* C11: a release that frees a slot resolves exactly one waiter when some
\* key with available >= 1 has an unresolved waiter, and none otherwise;
\* the waiter resolved is the first unresolved one of such a key; no step
\* resolves two waiters.
C11_WakeOne ==
    [][/\ Card(ResolvedNow) <= 1
       /\ \A c \in ResolvedNow :
             \E k \in DOMAIN waiters : HeadUnresolved(c, k) /\ CanServe(k)
       /\ ReleaseFreesSlot =>
             ((\E k \in DOMAIN waiters : CanServe(k)) <=> ResolvedNow # {})]_vars

\* Witness of C11: two keys have a queued call each and a handle has been
\* released; one of the two waiters has been resolved and the other is
\* still unresolved.
C11_Witness ==
    \E t1, t2, t3 \in Tasks :
        /\ HandleDone(t3) /\ proto[t3] \notin acquired
        /\ pc[t1] = "waiting" /\ pc[t2] = "waiting"
        /\ key[t1] # key[t2]
        /\ futs[call[t1]] = "result"
        /\ futs[call[t2]] = "pending"

(* This step is a call of Connection.release or Connection.close on the    *)
(* handle of task t that goes through to BaseConnector._release.           *)
CallsPoolRelease(t) ==
    /\ pc[t] = "holding" /\ ~hClosed[t]
    /\ \/ closing'[t] = closing[t] + 1
       \/ closing'[t] = closing[t] /\ hClosed'[t]

\* C12: for one handle the release into the open connector is performed at
\* most once: no call of release() or close() reaches _release after a
\* close() of the same handle has reached it.
C12_ReleaseOnce ==
    [][\A t \in Tasks :
          (~closed /\ CallsPoolRelease(t)) => closing[t] = 0]_vars

(* C13: on one handle, release() followed by close() has the protocol's    *)
(* close invoked exactly once; a second release() after a release() and a  *)
(* second close() after a completed close() change neither the pool state  *)
(* nor the protocol.                                                       *)
SecondCall(t, first, second) ==
    /\ pc[t] = "holding"
    /\ hClosed[t]
    /\ hLog[t] = <<first>>
    /\ hLog'[t] = <<first, second>>

C13_HandleIdempotent ==
    /\ [](\A t \in Tasks :
            (pc[t] = "holding" /\ hLog[t] = <<"release", "close">>)
                => closeCalls[proto[t]] = 1)
    /\ [][\A t \in Tasks :
            (SecondCall(t, "release", "release") \/ SecondCall(t, "close", "close"))
                => UNCHANGED <<poolVars, protoVars>>]_vars

(* C14: every release callback registered on a handle fires exactly once,  *)
(* on the first close() or release() called on the handle after it was     *)
(* registered, and no later call fires it again; a callback that raises    *)
(* an Exception does not stop the others.  A callback is waiting in the    *)
(* list or has fired once, never both and never twice, and a call of       *)
(* close() or release() leaves the list empty and every registered         *)
(* callback fired once, whichever of them raise.                           *)
HandleCall(t) ==
    /\ pc[t] = "holding" /\ pc'[t] = "holding" /\ call'[t] = call[t]
    /\ \/ hLog'[t] # hLog[t]
       \/ hClosed'[t] # hClosed[t] /\ closing'[t] = closing[t]
       \/ closing'[t] > closing[t]
       \/ fired'[t] # fired[t]

Waiting(t, c) == \E i \in 1..Len(callbacks[t]) : callbacks[t][i] = c

C14_CallbacksOnce ==
    /\ [](\A t \in Tasks : \A c \in CallbackIds :
            /\ fired[t][c] <= 1
            /\ c <= registered[t] => (Waiting(t, c) <=> fired[t][c] = 0)
            /\ c > registered[t] => (~Waiting(t, c) /\ fired[t][c] = 0))
    /\ [][\A t \in Tasks : HandleCall(t) =>
            /\ callbacks'[t] = <<>>
            /\ \A c \in 1..registered[t] : fired'[t][c] = 1]_vars

(* two callbacks were registered, release() and then close() were called   *)
(* on the handle, and each callback has fired once                         *)
C14_Witness ==
    \E t \in Tasks :
        /\ pc[t] = "holding"
        /\ registered[t] = MaxCallbacks
        /\ hLog[t] = <<"release", "close">>
        /\ \A c \in CallbackIds : fired[t][c] = 1

(* C15: with force_close false, a healthy protocol P released for key K    *)
(* (connected, should_close false, within keepalive_timeout) is what the   *)
(* next acquire for K that proceeds returns, without a dial.  idle[K]      *)
(* holds the protocols released for K, the latest on top.  Step by step on *)
(* an open pool: an acquire for K that enters _get while a healthy P is on *)
(* top of idle[K] returns P and dials nothing; and a healthy P on top of   *)
(* idle[K] stays in idle[K] as long as it is healthy, until an acquire for *)
(* K takes it.                                                             *)
Idle(cn, hp, k) == IF k \in DOMAIN cn THEN hp[cn[k]] ELSE <<>>

Healthy(p, t0, cd, tm) == cd[p] /\ tm - t0 <= keepalive_timeout

HealthyTop(k, p) ==
    LET s == Idle(conns, heap, k)
    IN s # <<>> /\ Last(s)[1] = p /\ Healthy(p, Last(s)[2], connected, now)

StaysHealthy(k, p) ==
    LET s == Idle(conns, heap, k)
    IN \E i \in 1..Len(s) : s[i][1] = p /\ Healthy(p, s[i][2], connected', now')

InIdleNext(k, p) ==
    LET s == Idle(conns', heap', k)
    IN \E i \in 1..Len(s) : s[i][1] = p

EntersGet(t, k) ==
    /\ key'[t] = k
    /\ \/ pc[t] \in {"idle", "holding"} /\ call'[t] # call[t]
       \/ pc[t] \in {"waiting", "q_end"}
    /\ \/ pc'[t] \in {"get_close", "tr_create_start", "dialing", "tr_reuse", "holding"}
       \/ pc'[t] = "idle" /\ raised' = "KeyError"

Reuses(t, k, p) ==
    /\ key'[t] = k /\ proto'[t] = p
    /\ pc'[t] \in {"tr_reuse", "holding"}
    /\ pc[t] # pc'[t] \/ call[t] # call'[t]
    /\ dials' = dials

ReusedByNext(k, p) ==
    \A t \in Tasks : (HealthyTop(k, p) /\ EntersGet(t, k)) => Reuses(t, k, p)

KeptUntilReused(k, p) ==
    (HealthyTop(k, p) /\ StaysHealthy(k, p))
        => (InIdleNext(k, p) \/ \E t \in Tasks : Reuses(t, k, p))

C15_ReuseAfterRelease ==
    [][(~closed /\ ~closed' /\ ~force_close) =>
        \A k \in Keys : \A p \in Protos :
            ReusedByNext(k, p) /\ KeptUntilReused(k, p)]_vars

(* C16: cancelling an acquire whose waiter is in waiters[K] removes        *)
(* exactly that waiter from the queue, deletes waiters[K] if it became     *)
(* empty, wakes no other waiter and leaves acquired, acquired_per_host     *)
(* and idle unchanged.  The cancellation marks the waiter's future and the *)
(* acquire then ends with CancelledError; both steps are covered.          *)
InQueue(c, k) ==
    k \in DOMAIN waiters /\ \E i \in 1..Len(waiters[k]) : waiters[k][i] = c

CancelledInQueue(t) ==
    /\ pc[t] = "waiting"
    /\ futs[call[t]] = "pending" /\ futs'[call[t]] = "cancelled"
    /\ InQueue(call[t], key[t])

EndsCancelled(t) ==
    /\ pc[t] \in {"q_start", "waiting"}
    /\ futs[call[t]] \in {"pending", "cancelled"}
    /\ pc'[t] = "idle" /\ raised' = "Cancelled"

WithoutWaiter(c, k) ==
    IF k \in DOMAIN waiters
    THEN DropEmptyQueue([waiters EXCEPT ![k] = SeqRemove(@, c)], k)
    ELSE waiters

WakesNobody == \A d \in Calls : futs'[d] = "result" => futs[d] = "result"

C16_CancelWaiter ==
    [][\A t \in Tasks :
        /\ CancelledInQueue(t) =>
              /\ UNCHANGED <<waiters, acquired, acquired_per_host, conns, heap>>
              /\ WakesNobody
        /\ EndsCancelled(t) =>
              /\ waiters' = WithoutWaiter(call[t], key[t])
              /\ ~(key[t] \in DOMAIN waiters' /\ waiters'[key[t]] = <<>>)
              /\ WakesNobody
              /\ UNCHANGED <<acquired, acquired_per_host, conns, heap>>]_vars

(* C17: on an open pool, an acquire that fails or is cancelled after its   *)
(* placeholder was inserted (in the create_start trace, in the dial, or by *)
(* a dial error) removes the placeholder from acquired and from            *)
(* acquired_per_host[key], wakes one waiter if one can proceed, and        *)
(* raises; no placeholder stays in acquired once its acquire has ended.    *)
HasPlaceholder(t) == pc[t] \in {"tr_create_start", "dialing"}

FailsWithPlaceholder(t) ==
    /\ HasPlaceholder(t)
    /\ pc'[t] = "idle"

PlaceholderGone(c) ==
    /\ Placeholder(c) \notin acquired'
    /\ \A k \in DOMAIN acquired_per_host' : Placeholder(c) \notin acquired_per_host'[k]

Orphan(c) ==
    /\ Placeholder(c) \in acquired
    /\ \A t \in Tasks : call[t] = c => pc[t] \notin {"tr_create_start", "dialing", "dial_closing"}

C17_PlaceholderFreed ==
    /\ [](~closed => \A c \in Calls : ~Orphan(c))
    /\ [][\A t \in Tasks : (~closed /\ FailsWithPlaceholder(t)) =>
            /\ raised' \in {"Cancelled", "DialError"}
            /\ PlaceholderGone(call[t])
            /\ Card(ResolvedNow) <= 1
            /\ (\E k \in DOMAIN waiters : CanServe(k)) <=> ResolvedNow # {}]_vars

(* C18: with the DNS cache enabled, concurrent resolutions of one          *)
(* (host, port) are served by one resolver call: at most one lookup per    *)
(* key is in flight, a gate entry exists exactly while that lookup is in   *)
(* flight, and every caller that waited for a lookup receives the records  *)
(* that lookup's own caller received, up to rotation.                      *)
InFlight(d) == rpc[d] \in {"miss_trace", "start_trace", "resolving", "end_trace"}

Records(r) == {r.addrs[i] : i \in 1..Len(r.addrs)}

OneInFlight ==
    \A k \in Hosts : Card({d \in Dials : rkey[d] = k /\ InFlight(d)}) <= 1

GateWhileInFlight ==
    \A k \in Hosts :
        k \in DOMAIN throttle_dns_events
            <=> \E d \in Dials : rkey[d] = k /\ InFlight(d) /\ throttle_dns_events[k] = d

Coalesced(f, l) == f # l /\ rev[f] = l /\ rpc[f] = "done" /\ rpc[l] = "done"

SameRecords ==
    \A f, l \in Dials :
        (Coalesced(f, l) /\ rres[l].kind = "ok")
            => (rres[f].kind = "ok" /\ Records(rres[f]) = Records(rres[l]))

C18_SingleFlight ==
    use_dns_cache => (OneInFlight /\ GateWhileInFlight /\ SameRecords)

(* C19 as stated: with use_dns_cache true, when the resolver fails for     *)
(* (host, port), every waiter of that lookup fails with the same error,    *)
(* afterwards neither the DNS cache nor the gate holds an entry for        *)
(* (host, port), and the next resolve of that key calls the resolver       *)
(* again.                                                                  *)
LookupFails(d) ==
    /\ use_dns_cache
    /\ rpc[d] = "resolving" /\ rpc'[d] = "done" /\ rres'[d].kind = "error"

SameError ==
    \A f, l \in Dials :
        (Coalesced(f, l) /\ rres[l].kind = "error") => rres[f] = rres[l]

NoValidEntry(k) == k \in DOMAIN cached_hosts => expired(k)

Retries(d) ==
    /\ rpc[d] = "start" /\ rpc'[d] \in {"miss_trace", "resolving"}
    /\ rkey[d] \in DOMAIN throttle_dns_events' /\ throttle_dns_events'[rkey[d]] = d

RetryAfterFailure ==
    \A d \in Dials :
        (/\ use_dns_cache
         /\ rpc[d] = "start" /\ rpc'[d] # "start"
         /\ NoValidEntry(rkey[d])
         /\ rkey[d] \notin DOMAIN throttle_dns_events) => Retries(d)

C19_FailureLeavesNothing ==
    /\ [](use_dns_cache => SameError)
    /\ [][/\ \A d \in Dials : LookupFails(d) =>
                /\ rkey[d] \notin DOMAIN cached_hosts'
                /\ rkey[d] \notin DOMAIN throttle_dns_events'
          /\ RetryAfterFailure]_vars

(* C19 amended: the failure removes the gate entry and adds no cache       *)
(* entry; an entry still in the cache is one that had expired before the   *)
(* lookup; the waiters fail with the same error and the next resolve of    *)
(* the key calls the resolver again.                                       *)
C19_FailureAddsNothing ==
    /\ [](use_dns_cache => SameError)
    /\ [][/\ \A d \in Dials : LookupFails(d) =>
                /\ cached_hosts' = cached_hosts
                /\ NoValidEntry(rkey[d])
                /\ rkey[d] \notin DOMAIN throttle_dns_events'
          /\ RetryAfterFailure]_vars

(* a lookup has failed while an expired entry of its key was in the cache, *)
(* a waiter of the lookup has failed with the same error, and both dials   *)
(* have raised                                                             *)
C19_Witness ==
    \E f, l \in Dials :
        /\ use_dns_cache
        /\ Coalesced(f, l) /\ rres[l].kind = "error" /\ rres[f] = rres[l]
        /\ dpc[f] = "failed" /\ dpc[l] = "failed"
        /\ rkey[l] \in DOMAIN cached_hosts /\ expired(rkey[l])
        /\ rkey[l] \notin DOMAIN throttle_dns_events

(* C20: cancelling a dial while it waits for DNS resolution does not       *)
(* cancel the shared lookup: the resolver call runs to completion, its     *)
(* result is stored in the cache, every other caller coalesced on the same *)
(* (host, port) still receives the result, and the error of the cancelled  *)
(* dial is dropped silently.                                               *)
CancelsDial(d) == dpc[d] = "resolve" /\ dpc'[d] = "cancelled"

Abandoned(d) == dpc[d] \in {"cancelled", "dropped"}

(* the cancellation changes nothing of the lookup                          *)
LookupUntouched ==
    \A d \in Dials : CancelsDial(d) =>
        UNCHANGED <<rpc, rkey, rev, rres, events, cached_hosts, timestamps,
                    throttle_dns_events, resolves>>

(* the task of a cancelled dial has ended, can take its next step, or      *)
(* waits for a lookup that is in flight                                    *)
RunsOn ==
    \A d \in Dials : (Abandoned(d) /\ rpc[d] # "done") =>
        \/ rpc[d] \in {"start", "miss_trace", "start_trace", "resolving", "end_trace",
                       "hit_trace", "wait_trace"}
        \/ /\ rpc[d] = "waiting"
           /\ IsSet(events[rev[d]]) \/ InFlight(rev[d])

(* the lookup of a cancelled dial that ends with an answer has stored it   *)
StoresResult ==
    \A d \in Dials :
        (/\ Abandoned(d) /\ rev[d] = d
         /\ rpc[d] # "done" /\ rpc'[d] = "done" /\ rres'[d].kind = "ok") =>
            /\ rkey[d] \in DOMAIN cached_hosts'
            /\ Records(cached_hosts'[rkey[d]]) = Records(rres'[d])

(* a caller coalesced on the lookup of a cancelled dial, woken after the   *)
(* lookup has ended with an answer, gets its records                       *)
OthersReceive ==
    \A f, l \in Dials :
        (/\ f # l /\ rev[f] = l /\ Abandoned(l) /\ rres[l].kind = "ok"
         /\ rpc[f] = "waiting" /\ rpc'[f] = "done") =>
            /\ rres'[f].kind = "ok"
            /\ Records(rres'[f]) = Records(rres[l])

(* the outcome of the task reaches no one: the dial ends cancelled, and    *)
(* drop_exception consumes an answer and an error alike                    *)
DroppedSilently ==
    \A d \in Dials :
        /\ Abandoned(d) => dpc'[d] \in {"cancelled", "dropped"}
        /\ (dpc[d] = "cancelled" /\ rpc[d] = "done") => ENABLED drop_exception(d)

C20_ShieldedLookup ==
    /\ []RunsOn
    /\ [][LookupUntouched /\ StoresResult /\ OthersReceive /\ DroppedSilently]_vars

(* C21: for a cached key with a record list of length L, every call of     *)
(* next_addrs returns all L records as a cyclic rotation of the stored     *)
(* list, the n-th call (n = 0, 1, ...) starting at offset n mod L, so that *)
(* L successive calls yield L distinct rotations of distinct records; this *)
(* holds for every L the resolver can return.                              *)
Rotation(a, off) == [i \in 1..Len(a) |-> a[((off + i - 1) % Len(a)) + 1]]

NthRotation(a, n) == IF Len(a) = 0 THEN <<>> ELSE Rotation(a, n % Len(a))

(* the task of dial d calls next_addrs on the entry of its key             *)
CallsNextAddrs(d) ==
    /\ rpc'[d] # rpc[d]
    /\ rkey[d] \in DOMAIN served'
    /\ rkey[d] \notin DOMAIN served \/ served'[rkey[d]] # served[rkey[d]]

DistinctRotations(a) ==
    \A i, j \in 0..(Len(a) - 1) : i # j => Rotation(a, i) # Rotation(a, j)

C21_Rotations ==
    /\ [](\A k \in DOMAIN cached_hosts : DistinctRotations(cached_hosts[k].addrs))
    /\ [][\A d \in Dials : CallsNextAddrs(d) =>
            rres'[d] = Ok(NthRotation(cached_hosts'[rkey[d]].addrs,
                                      served'[rkey[d]] - 1))]_vars

(* C22: with force_close = true every release discards the protocol: the   *)
(* idle map is empty in every reachable state and no acquire reuses a      *)
(* protocol; a release with should_close = true or with                    *)
(* proto.should_close set never appends to idle either.                    *)
NoIdle == conns = EmptyDict /\ \A i \in ListIds : heap[i] = <<>>

(* the step in which the Connection of t calls _release                    *)
CallsRelease(t) ==
    /\ pc[t] = "holding" /\ pc'[t] = "holding" /\ call'[t] = call[t]
    /\ ~hClosed[t]
    /\ hClosed'[t] \/ closing'[t] > closing[t]

C22_ForceClose ==
    /\ [](force_close => NoIdle)
    /\ [][/\ force_close => \A t \in Tasks, p \in Protos : ~Reuses(t, key'[t], p)
          /\ \A t \in Tasks : (CallsRelease(t) /\ (force_close \/ hShould')) =>
                UNCHANGED <<conns, heap>>]_vars

(* with force_close a caller has released a protocol that did not ask to   *)
(* be closed, and the next acquire of the key has dialed                   *)
C22_Witness ==
    /\ force_close /\ ~hShould /\ ~closed
    /\ \E t, u \in Tasks :
          /\ t # u
          /\ hLog[t] = <<"release">> /\ hClosed[t]
          /\ pc[u] = "holding" /\ key[u] = key[t] /\ proto[u] # proto[t]
          /\ call[u] > call[t]

(* the availability arithmetic as the specification writes it              *)
Min(a, b) == IF a <= b THEN a ELSE b

Available(k, acq, aph) ==
    IF limit > 0
    THEN LET a == limit - Card(acq)
         IN IF limit_per_host > 0 /\ k \in DOMAIN aph
            THEN Min(a, limit_per_host - Card(aph[k]))
            ELSE a
    ELSE IF limit_per_host > 0 /\ k \in DOMAIN aph
    THEN limit_per_host - Card(aph[k])
    ELSE 1

(* C24: for every limit, limit_per_host, acquired and acquired_by_key,     *)
(* available(key) returns the value of the specification's arithmetic:     *)
(* limit - |acquired| when limit > 0, lowered to the minimum of that and   *)
(* limit_per_host - |acquired_by_key[key]| when limit_per_host > 0 and key *)
(* is in acquired_by_key; limit_per_host - |acquired_by_key[key]| when     *)
(* only limit_per_host applies; 1 otherwise.                               *)
C24_AvailableValue ==
    \A k \in Keys :
        available_connections(k, acquired, acquired_per_host)
            = Available(k, acquired, acquired_per_host)

(* C23 as stated: for every key K whose waiter queue is non-empty,         *)
(* available(K) <= 0 immediately after an acquire has enqueued itself      *)
(* there and before any release, including when the acquire enqueued only  *)
(* because K was already present in waiters.                               *)
Enqueues(t, k) ==
    /\ call'[t] # call[t] /\ key'[t] = k
    /\ k \in DOMAIN waiters'
    /\ \E i \in 1..Len(waiters'[k]) : waiters'[k][i] = call'[t]

GetsFrom(t) ==
    IF pc[t] = "get_close" THEN getList[t]
    ELSE IF key'[t] \in DOMAIN conns THEN conns[key'[t]] ELSE NoList

(* t runs a turn of the loop of _get: from the entry or from the return of *)
(* proto.close() to the next proto.close() or to the return                *)
TurnOfGet(t) ==
    \/ EntersGet(t, key'[t])
    \/ pc[t] = "get_close" /\ (pc'[t] # "get_close" \/ proto'[t] # proto[t])

Qualifies(e) == connected[e[1]] /\ now - e[2] <= keepalive_timeout

PopsTail(t) ==
    LET L == GetsFrom(t)
    IN (L # NoList /\ heap[L] # <<>>) =>
          LET e == Last(heap[L])
          IN /\ Qualifies(e) <=> Reuses(t, key'[t], e[1])
             /\ ~Qualifies(e) =>
                   /\ pc'[t] = "get_close" /\ proto'[t] = e[1]
                   /\ closeCalls'[e[1]] >= 1

NoneWhenEmpty(t) ==
    LET L == GetsFrom(t)
    IN (L = NoList \/ heap[L] = <<>>) => \A p \in Protos : ~Reuses(t, key'[t], p)

DeletesEmptied(t) ==
    LET L == GetsFrom(t)
    IN (L # NoList /\ pc'[t] # "get_close" /\ Len(heap[L]) <= 1) =>
          /\ key'[t] \notin DOMAIN conns'
          /\ raised' # "KeyError"

C25_ReuseFreshest ==
    [][\A t \in Tasks : TurnOfGet(t) =>
          PopsTail(t) /\ NoneWhenEmpty(t) /\ DeletesEmptied(t)]_vars

(* C26: each reaper sweep partitions every idle list: exactly the entries  *)
(* with now - last_use > keepalive_timeout (all entries when the pool is   *)
(* closing) are closed, every other entry is kept with its timestamp and   *)
(* relative order unchanged, and emptied lists are removed.                *)
SweepStep ==
    /\ wakeup' = FALSE
    /\ \/ /\ cleanupPc = "wait"
          /\ wakeup \/ cleanupWhen' # cleanupWhen \/ cleanupPc' # "wait"
       \/ cleanupPc = "gather" /\ wakeup /\ ~closed

Expired(e) == closed \/ now - e[2] > keepalive_timeout
Survives(e) == ~Expired(e)

ExpiredProtos ==
    UNION {{Idle(conns, heap, k)[i][1] :
              i \in {j \in 1..Len(Idle(conns, heap, k)) : Expired(Idle(conns, heap, k)[j])}} :
           k \in Keys}

Partitioned ==
    /\ cleanupClosing' = ExpiredProtos
    /\ \A p \in ExpiredProtos : closeCalls'[p] >= 1
    /\ \A k \in Keys :
          /\ Idle(conns', heap', k) = SelectSeq(Idle(conns, heap, k), Survives)
          /\ SelectSeq(Idle(conns, heap, k), Survives) = <<>> => k \notin DOMAIN conns'

C26_SweepPartitions ==
    [][(SweepStep /\ conns # EmptyDict) => Partitioned]_vars

(* C27: a direct dial tries the resolved addresses in the order returned;  *)
(* on any per-address failure (OS error, TLS or certificate error, connect *)
(* timeout, fingerprint mismatch, the last also closing that protocol) it  *)
(* retains the error and continues with the next address; it returns the   *)
(* connection of the first address that connects and passes the            *)
(* fingerprint check, and raises the last retained error only when all     *)
(* addresses are exhausted.                                                *)
Tries(d) == Len(tried'[d]) = Len(tried[d]) + 1
Attempt(d) == tried'[d][Len(tried'[d])]

ErrorOf(out) ==
    CASE out = "OSError" -> {"ClientConnectorError"}
      [] out = "ssl_errors" -> {"ClientConnectorSSLError"}
      [] out = "cert_errors" -> {"ClientConnectorCertificateError"}
      [] out = "TimeoutError" -> {"ClientConnectorError", "TimeoutError"}
      [] out = "mismatch" -> {"ServerFingerprintMismatch"}
      [] OTHER -> {}

InOrder(d) ==
    /\ Len(tried[d]) <= Len(rres[d].addrs)
    /\ \A i \in 1..Len(tried[d]) : tried[d][i].addr = rres[d].addrs[i]

RetainsAndContinues(d) ==
    (Tries(d) /\ Attempt(d).out \notin {"connected", "mismatch"}) =>
        /\ last_exc'[d] \in ErrorOf(Attempt(d).out)
        /\ hinfo'[d] = hinfo[d] + 1
        /\ dpc'[d] = "connect"
        /\ dret'[d] = NotEnded

ClosesOnMismatch(d) ==
    /\ (Tries(d) /\ Attempt(d).out = "mismatch") =>
          dpc'[d] = "close" /\ dret'[d] = NotEnded
    /\ (dpc[d] = "close" /\ dpc'[d] # "close") =>
          /\ last_exc'[d] = "ServerFingerprintMismatch"
          /\ hinfo'[d] = hinfo[d] + 1
          /\ dpc'[d] = "connect"
          /\ dret'[d] = NotEnded

ReturnsFirstGood(d) ==
    /\ (Tries(d) /\ Attempt(d).out = "connected") =>
          dret'[d] = [kind |-> "return", val |-> Attempt(d).addr]
    /\ dret[d].kind = "return" =>
          /\ tried[d] # <<>>
          /\ \A i \in 1..Len(tried[d]) :
                tried[d][i].out = "connected" <=> i = Len(tried[d])
          /\ dret[d].val = tried[d][Len(tried[d])].addr

RaisesLastWhenExhausted(d) ==
    dret[d].kind = "raise" =>
        /\ Len(tried[d]) = Len(rres[d].addrs)
        /\ tried[d] # <<>>
        /\ dret[d].val \in ErrorOf(tried[d][Len(tried[d])].out)

C27_TriesEachAddress ==
    /\ [](\A d \in Dials : InOrder(d) /\ RaisesLastWhenExhausted(d))
    /\ [][\A d \in Dials : /\ RetainsAndContinues(d)
                          /\ ClosesOnMismatch(d)
                          /\ ReturnsFirstGood(d)]_vars

(* C28: after a successful CONNECT tunnel through a proxy, the resulting   *)
(* connection is accounted and pooled under the tunneled key (the          *)
(* request's connection key with proxy, proxy_auth and proxy_headers_hash  *)
(* set to none): the handle returned by connect, the acquired_per_host     *)
(* entry and the later idle entry all use that key.                        *)
HandleKeyIs(p, k) ==
    \A t \in Tasks : (pc[t] = "holding" /\ proto[t] = p) => key[t] = k

AccountedUnder(p, k) ==
    p \in acquired =>
        /\ k \in DOMAIN acquired_per_host /\ p \in acquired_per_host[k]
        /\ \A j \in DOMAIN acquired_per_host : p \in acquired_per_host[j] => j = k

IdleUnder(p, k) ==
    \A j \in DOMAIN conns :
        (\E i \in 1..Len(heap[conns[j]]) : heap[conns[j]][i][1] = p) => j = k

QueuedUnresolved(t) ==
    /\ pc[t] = "waiting"
    /\ futs[call[t]] = "pending"
    /\ InQueue(call[t], key[t])

WokenPending ==
    \E t \in Tasks : pc[t] = "waiting" /\ futs[call[t]] \in {"result", "result_cancelled"}

Stranded(t) ==
    /\ ~closed
    /\ QueuedUnresolved(t)
    /\ available_connections(key[t], acquired, acquired_per_host) >= 1
    /\ acquired = {}
    /\ ~WokenPending

NoneStranded == \A t \in Tasks : ~Stranded(t)

EventuallyResolved ==
    \A t \in Tasks : QueuedUnresolved(t) ~> ~QueuedUnresolved(t)

C29_NoLostWakeup == []NoneStranded /\ EventuallyResolved

(* C30: acquires of one key that run while a reuse is suspended closing a  *)
(* stale idle entry, or while the cleanup task replaces the idle map, each *)
(* end with a handle or with a dial or connector-closed error: deleting    *)
(* the key of an emptied idle list never fails because another task        *)
(* already removed it, and no acquire ends with an internal bookkeeping    *)
(* error.                                                                  *)
AcquireErrors == {"none", "DialError", "ConnectorClosed", "Cancelled"}

DeleteSucceeds(t) == TurnOfGet(t) => raised' \in AcquireErrors

C30_NoBookkeepingError ==
    /\ [](raised \in AcquireErrors)
    /\ [][\A t \in Tasks : DeleteSucceeds(t)]_vars

=============================================================================
